---- MODULE Spec2Model ----
(***************************************************************************)
(* Price-support estimation engine of st_seller (src/analyzer.py).         *)
(*                                                                         *)
(* Number representation.  The source computes on Python floats; the       *)
(* model computes on exact integers in fixed units:                        *)
(*   - prices in thousandths of the currency unit (CentUnits per cent),    *)
(*     so that the 2-decimal truncation has a digit to drop;               *)
(*   - hours (GRAPH_ANALYS_HOURS, MIN_RANGE_HOURS) as whole hours;         *)
(*   - MIN_POINTS_SHARE_PER_HOUR in hundredths (DensityScale);             *)
(*   - MIN_SHARE in tenths (ShareScale);                                   *)
(*   - range_hours = graph_hours / N as the exact fraction [num, den].     *)
(* Timestamps are integer seconds, as in the source.                       *)
(***************************************************************************)
EXTENDS Integers, Sequences, FiniteSets, TLC

VARIABLES
    config,                  \* module config_console: the analysis settings
    points,                  \* points[c]: argument of call c
    density_share_override,  \* density_share_override[c]: argument of call c
    pc,                      \* pc[c]: position of call c in compute_support_dual
    frame,                   \* frame[c]: locals of the running _compute_support_with_periods
    res,                     \* res[c]: the SupportResults returned so far (res1, res2)
    out,                     \* out[c]: what compute_support_dual returned or raised
    tx,                      \* argument of the stand-alone trunc_price_2 call
    tr,                      \* its return value (as a 0/1-element sequence)
    qx,                      \* prices and weights of the stand-alone _weighted_quantile calls
    qr                       \* the calls made on them: their q and return value, in order

vars == <<config, points, density_share_override, pc, frame, res, out, tx, tr, qx, qr>>

----------------------------------------------------------------------------
(* Units and sentinels *)

SecondsPerHour == 3600
CentUnits == 10
DensityScale == 100
ShareScale == 10
Inf == 1000000000
NoIdx == -1
NoOverride == -1
EpsilonInverse == 1000000000

(* Bounds of the explored inputs *)
MaxPoints == 3
MaxTruncInput == 260
MaxPairs == 3

Calls == {1, 2}

----------------------------------------------------------------------------
(* Arithmetic helpers *)

Max2(a, b) == IF a >= b THEN a ELSE b

\* int(math.floor(a / b)) for b > 0
FloorDiv(a, b) == a \div b

\* int(math.ceil(a / b)) for b > 0
CeilDiv(a, b) == -((-a) \div b)

\* Python int(x): truncation toward zero of a / b, b > 0
TruncDiv(a, b) == IF a >= 0 THEN a \div b ELSE -((-a) \div b)

RECURSIVE SumSeq(_)
SumSeq(s) == IF s = <<>> THEN 0 ELSE Head(s) + SumSeq(Tail(s))

SeqMin(s) == CHOOSE x \in {s[k] : k \in 1..Len(s)} : \A k \in 1..Len(s) : x <= s[k]
SeqMax(s) == CHOOSE x \in {s[k] : k \in 1..Len(s)} : \A k \in 1..Len(s) : x >= s[k]

\* Python's sorted()/list.sort() is stable: Order(keys) lists the positions
\* 1..Len(keys) by ascending key, equal keys in their original order.
\* variant: equal keys ordered last first
RankTiesReversed(keys, k) ==
    1 + Cardinality({j \in 1..Len(keys) :
                        keys[j] < keys[k] \/ (keys[j] = keys[k] /\ j > k)})

Rank(keys, k) ==
    1 + Cardinality({j \in 1..Len(keys) :
                        keys[j] < keys[k] \/ (keys[j] = keys[k] /\ j < k)})
Order(keys) ==
    [p \in 1..Len(keys) |-> CHOOSE k \in 1..Len(keys) : Rank(keys, k) = p]

----------------------------------------------------------------------------
(* trunc_price_2: Decimal(str(x)).quantize(Decimal("0.01"), ROUND_DOWN).   *)
(* ROUND_DOWN drops the digits after the second decimal, toward zero.      *)

trunc_price_2_half_up(x) == ((x + CentUnits \div 2) \div CentUnits) * CentUnits

trunc_price_2(x) ==
    IF x >= 0 THEN (x \div CentUnits) * CentUnits
              ELSE -(((-x) \div CentUnits) * CentUnits)

----------------------------------------------------------------------------
(* _filter_last_hours *)

\* variant: "p.ts > t_min" written for "p.ts >= t_min"
_filter_last_hours_strict(pts, hours) ==
    IF pts = <<>> THEN <<>>
    ELSE LET t_last == pts[Len(pts)].ts
             t_min == t_last - hours * SecondsPerHour
         IN SelectSeq(pts, LAMBDA p : p.ts > t_min)

\* variant: the window taken as hours * 60 seconds
_filter_last_hours_minutes(pts, hours) ==
    IF pts = <<>> THEN <<>>
    ELSE LET t_last == pts[Len(pts)].ts
             t_min == t_last - hours * 60
         IN SelectSeq(pts, LAMBDA p : p.ts >= t_min)

_filter_last_hours(pts, hours) ==
    IF pts = <<>> THEN <<>>
    ELSE LET t_last == pts[Len(pts)].ts
             t_min == t_last - hours * SecondsPerHour
         IN SelectSeq(pts, LAMBDA p : p.ts >= t_min)

----------------------------------------------------------------------------
(* _weighted_quantile.  q is in tenths (q = ShareScale means 1.0).         *)

\* variant: "cum > target" written for "cum >= target"
RECURSIVE QuantileWalkStrict(_, _, _, _, _)
QuantileWalkStrict(pairs, k, cum, q, total_w) ==
    IF k > Len(pairs) THEN pairs[Len(pairs)][1]
    ELSE IF pairs[k][2] <= 0 THEN QuantileWalkStrict(pairs, k + 1, cum, q, total_w)
    ELSE IF (cum + pairs[k][2]) * ShareScale > q * total_w THEN pairs[k][1]
    ELSE QuantileWalkStrict(pairs, k + 1, cum + pairs[k][2], q, total_w)

\* the loop of lines 92-97 from pair k on, cum being the weight summed so far
RECURSIVE QuantileWalk(_, _, _, _, _)
QuantileWalk(pairs, k, cum, q, total_w) ==
    IF k > Len(pairs) THEN pairs[Len(pairs)][1]
    ELSE IF pairs[k][2] <= 0 THEN QuantileWalk(pairs, k + 1, cum, q, total_w)
    ELSE IF (cum + pairs[k][2]) * ShareScale >= q * total_w THEN pairs[k][1]
    ELSE QuantileWalk(pairs, k + 1, cum + pairs[k][2], q, total_w)

\* variant: without the early returns for q <= 0 and q >= 1
_weighted_quantile_no_ends(prices, weights, q) ==
    IF prices = <<>> THEN 0
    ELSE LET ord == Order(prices)
             pairs == [p \in 1..Len(prices) |-> <<prices[ord[p]], weights[ord[p]]>>]
             total_w == SumSeq([p \in 1..Len(pairs) |->
                                  IF pairs[p][2] > 0 THEN pairs[p][2] ELSE 0])
         IN IF total_w <= 0 THEN 0
            ELSE QuantileWalk(pairs, 1, 0, q, total_w)

\* variant: the pairs walked in the order given, without sorted()
_weighted_quantile_unsorted(prices, weights, q) ==
    IF prices = <<>> THEN 0
    ELSE IF q <= 0 THEN SeqMin(prices)
    ELSE IF q >= ShareScale THEN SeqMax(prices)
    ELSE LET pairs == [p \in 1..Len(prices) |-> <<prices[p], weights[p]>>]
             total_w == SumSeq([p \in 1..Len(pairs) |->
                                  IF pairs[p][2] > 0 THEN pairs[p][2] ELSE 0])
         IN IF total_w <= 0 THEN 0
            ELSE QuantileWalk(pairs, 1, 0, q, total_w)

_weighted_quantile(prices, weights, q) ==
    IF prices = <<>> THEN 0
    ELSE IF q <= 0 THEN SeqMin(prices)
    ELSE IF q >= ShareScale THEN SeqMax(prices)
    ELSE LET ord == Order(prices)
             pairs == [p \in 1..Len(prices) |-> <<prices[ord[p]], weights[ord[p]]>>]
             total_w == SumSeq([p \in 1..Len(pairs) |->
                                  IF pairs[p][2] > 0 THEN pairs[p][2] ELSE 0])
         IN IF total_w <= 0 THEN 0
            ELSE QuantileWalk(pairs, 1, 0, q, total_w)

----------------------------------------------------------------------------
(* Records *)

Note(tag, n, info) == [tag |-> tag, n |-> n, info |-> info]

Fraction(num, den) == [num |-> num, den |-> den]

NoFrame ==
    [method |-> "", periods |-> <<>>, use_counts_for_share |-> FALSE,
     pts |-> <<>>, p_now |-> 0, used_density_share |-> 0,
     n_try |-> 0, N |-> 0, range_hours |-> Fraction(0, 1), required_points |-> 0,
     last_count |-> 0, i |-> 0, stats |-> <<>>, notes |-> <<>>]

NewFrame(method, periods, use_counts_for_share) ==
    [NoFrame EXCEPT !.method = method, !.periods = periods,
                    !.use_counts_for_share = use_counts_for_share]

NoOut == [status |-> "none", error |-> "", dual |-> <<>>]

Raised(msg) == [status |-> "raised", error |-> msg, dual |-> <<>>]

Returned(dual) == [status |-> "returned", error |-> "", dual |-> <<dual>>]

Pairs(prices, weights) == [prices |-> prices, weights |-> weights]

NoPairs == Pairs(<<>>, <<>>)

----------------------------------------------------------------------------
(* _pick_range_partition *)

\* n_max of lines 112-114: floor(graph_hours / max(1e-9, min_range_hours)),
\* at least 1.  For whole hours the divisor is min_range_hours when it is
\* >= 1 and 1e-9 otherwise.
PickNMax(graph_hours, min_range_hours) ==
    Max2(1, IF min_range_hours >= 1
            THEN FloorDiv(graph_hours, min_range_hours)
            ELSE graph_hours * EpsilonInverse)

\* range_hours + 1e-9 < min_range_hours, for range_hours = graph_hours / N.
\* With whole hours and N far below 1e9 the epsilon never decides.
BelowMinRange(graph_hours, N, min_range_hours) ==
    graph_hours < min_range_hours * N

\* variant: int() alone, without math.ceil
RequiredPointsFloor(graph_hours, N, density_share) ==
    FloorDiv(graph_hours * density_share, N * DensityScale)

\* int(math.ceil(range_hours * density_share))
RequiredPoints(graph_hours, N, density_share) ==
    CeilDiv(graph_hours * density_share, N * DensityScale)

\* a and b of lines 137-138; range_seconds = graph_hours * 3600 / N
PickRangeA(t_start, graph_hours, N, i) ==
    t_start + TruncDiv(i * graph_hours * SecondsPerHour, N)

PickRangeB(t_start, t_end, graph_hours, N, i) ==
    IF i < N - 1
    THEN t_start + TruncDiv((i + 1) * graph_hours * SecondsPerHour, N)
    ELSE t_end + 1

\* counts of lines 133-140, as a sequence indexed 1..N for i = 0..N-1
PickCounts(pts, graph_hours, N) ==
    LET t_end == pts[Len(pts)].ts
        t_start == t_end - graph_hours * SecondsPerHour
    IN [k \in 1..N |->
          Cardinality({j \in 1..Len(pts) :
              /\ PickRangeA(t_start, graph_hours, N, k - 1) <= pts[j].ts
              /\ pts[j].ts < PickRangeB(t_start, t_end, graph_hours, N, k - 1)})]

----------------------------------------------------------------------------
(* _compute_support_with_periods: the per-range statistics *)

\* last_count of lines 210-214 (.get("LAST_RANGE_COUNT", 0) or 0, clamped)
LastCount(last_cfg, N) ==
    LET raw == last_cfg.LAST_RANGE_COUNT
        nonneg == IF raw < 0 THEN 0 ELSE raw
    IN IF nonneg > N THEN N ELSE nonneg

\* variant: "i > N - last_count" written for "i >= N - last_count"
IsLastGroupStrict(i, N, last_count) ==
    IF last_count > 0 THEN i > N - last_count ELSE FALSE

\* is_last_group of line 235, and the group test of lines 304-305
IsLastGroup(i, N, last_count) ==
    IF last_count > 0 THEN i >= N - last_count ELSE FALSE

\* variant: the lower bound taken one second late
StatRangeAExclusive(t_start, graph_hours, N, i) ==
    t_start + TruncDiv(i * graph_hours * SecondsPerHour, N) + 1

\* a and b of lines 228-229
StatRangeA(t_start, graph_hours, N, i) ==
    t_start + TruncDiv(i * graph_hours * SecondsPerHour, N)

\* variant: the last upper bound computed like the others, without t_end + 1
StatRangeBUniform(t_start, t_end, graph_hours, N, i) ==
    t_start + TruncDiv((i + 1) * graph_hours * SecondsPerHour, N)

StatRangeB(t_start, t_end, graph_hours, N, i) ==
    IF i < N - 1
    THEN t_start + TruncDiv((i + 1) * graph_hours * SecondsPerHour, N)
    ELSE t_end + 1

\* variant: the sales volume used as the gating metric in both methods
VolumeUsedSales(use_counts_for_share, volume_sales, points_count) == volume_sales

\* volume_used of lines 242-247
VolumeUsed(use_counts_for_share, volume_sales, points_count) ==
    IF use_counts_for_share THEN volume_sales ELSE points_count

\* variant: "volume_used < min_window_volume - 1"
BelowWindowVolumeOffByOne(volume_used, min_window_volume) ==
    volume_used < min_window_volume - 1

\* variant: the gate of line 264 left out
BelowWindowVolumeNever(volume_used, min_window_volume) == FALSE

\* the volume gate of line 264
BelowWindowVolume(volume_used, min_window_volume) ==
    volume_used < min_window_volume

\* variant: every observation weighted 1 in both methods
QuantileWeightsOnes(use_counts_for_share, in_range) ==
    [k \in 1..Len(in_range) |-> 1]

\* the weights of lines 277-286: the counts, or 1 per observation
QuantileWeights(use_counts_for_share, in_range) ==
    IF use_counts_for_share
    THEN [k \in 1..Len(in_range) |-> in_range[k].count]
    ELSE [k \in 1..Len(in_range) |-> 1]

\* one iteration of the loop of lines 227-296: the RangeStat of sub-range i
BuildRangeStat(pts, graph_hours, N, i, last_count, periods, use_counts_for_share) ==
    LET last_cfg == periods[1]
        other_cfg == periods[2]
        t_end == pts[Len(pts)].ts
        t_start == t_end - graph_hours * SecondsPerHour
        a == StatRangeA(t_start, graph_hours, N, i)
        b == StatRangeB(t_start, t_end, graph_hours, N, i)
        in_range == SelectSeq(pts, LAMBDA p : a <= p.ts /\ p.ts < b)
        points_count == Len(in_range)
        volume_sales == SumSeq([k \in 1..Len(in_range) |-> in_range[k].count])
        cfg == IF IsLastGroup(i, N, last_count) THEN last_cfg ELSE other_cfg
        min_share == cfg.MIN_SHARE
        min_window_volume == cfg.MIN_WINDOW_VOLUME
        q == ShareScale - min_share
        volume_used == VolumeUsed(use_counts_for_share, volume_sales, points_count)
        volume_used_name == IF use_counts_for_share THEN "sales" ELSE "points"
        st == [idx |-> i, start_ts |-> a, end_ts |-> b,
               points_count |-> points_count, volume_sales |-> volume_sales,
               volume_used |-> volume_used, volume_used_name |-> volume_used_name,
               min_share |-> min_share, min_window_volume |-> min_window_volume,
               percentile_q |-> q, percentile_price |-> 0, valid |-> FALSE,
               invalid_reason |-> "", ignored_by_violation |-> FALSE]
        prices == [k \in 1..Len(in_range) |-> in_range[k].price]
        weights == QuantileWeights(use_counts_for_share, in_range)
        perc_price == _weighted_quantile(prices, weights, q)
    IN IF BelowWindowVolume(volume_used, min_window_volume)
         THEN [st EXCEPT !.invalid_reason =
                  IF use_counts_for_share THEN "sales<min_window_volume"
                                          ELSE "points<min_window_volume"]
       ELSE IF prices = <<>>
         THEN [st EXCEPT !.invalid_reason = "no prices"]
       ELSE IF use_counts_for_share /\ SumSeq(weights) <= 0
         THEN [st EXCEPT !.invalid_reason = "sum(count)<=0"]
       ELSE IF perc_price <= 0
         THEN [st EXCEPT !.invalid_reason = "percentile<=0"]
       ELSE [st EXCEPT !.percentile_price = perc_price, !.valid = TRUE]

\* variant: the dearest valid sub-range of a group is always spared
apply_violations_keep_one(stats, group, max_viol) ==
    LET valid == SelectSeq(group, LAMBDA k :
                     stats[k].valid /\ stats[k].percentile_price > 0)
        ord == Order([j \in 1..Len(valid) |-> stats[valid[j]].percentile_price])
        sorted == [p \in 1..Len(valid) |-> valid[ord[p]]]
        take == IF Max2(0, max_viol) < Len(sorted) THEN Max2(0, max_viol)
                                                 ELSE Max2(0, Len(sorted) - 1)
        marked == {sorted[p] : p \in 1..take}
    IN [k \in 1..Len(stats) |->
          IF k \in marked THEN [stats[k] EXCEPT !.ignored_by_violation = TRUE]
                          ELSE stats[k]]

\* variant: the group sorted and marked without the filter on valid
apply_violations_unfiltered(stats, group, max_viol) ==
    LET ord == Order([j \in 1..Len(group) |-> stats[group[j]].percentile_price])
        sorted == [p \in 1..Len(group) |-> group[ord[p]]]
        take == IF Max2(0, max_viol) < Len(sorted) THEN Max2(0, max_viol)
                                                 ELSE Len(sorted)
        marked == {sorted[p] : p \in 1..take}
    IN [k \in 1..Len(stats) |->
          IF k \in marked THEN [stats[k] EXCEPT !.ignored_by_violation = TRUE]
                          ELSE stats[k]]

\* apply_violations on the group holding the stats at positions `group`
\* (ascending): the max_viol cheapest valid ones are marked ignored.
apply_violations(stats, group, max_viol) ==
    LET valid == SelectSeq(group, LAMBDA k :
                     stats[k].valid /\ stats[k].percentile_price > 0)
        ord == Order([j \in 1..Len(valid) |-> stats[valid[j]].percentile_price])
        sorted == [p \in 1..Len(valid) |-> valid[ord[p]]]
        take == IF Max2(0, max_viol) < Len(sorted) THEN Max2(0, max_viol)
                                                 ELSE Len(sorted)
        marked == {sorted[p] : p \in 1..take}
    IN [k \in 1..Len(stats) |->
          IF k \in marked THEN [stats[k] EXCEPT !.ignored_by_violation = TRUE]
                          ELSE stats[k]]

\* last_group / other_group of lines 304-305, as positions into stats
GroupPositions(stats, N, last_count, last) ==
    SelectSeq([k \in 1..Len(stats) |-> k],
              LAMBDA k : IsLastGroup(stats[k].idx, N, last_count) = last)

\* variant: the two budgets passed to the wrong groups
ApplyBothViolationsSwapped(stats, N, last_count, last_cfg, other_cfg) ==
    LET after_last == apply_violations(stats,
                          GroupPositions(stats, N, last_count, TRUE),
                          other_cfg.MAX_ALLOWED_VIOLATIONS)
    IN apply_violations(after_last,
                        GroupPositions(stats, N, last_count, FALSE),
                        last_cfg.MAX_ALLOWED_VIOLATIONS)

\* lines 304-311
ApplyBothViolations(stats, N, last_count, last_cfg, other_cfg) ==
    LET after_last == apply_violations(stats,
                          GroupPositions(stats, N, last_count, TRUE),
                          last_cfg.MAX_ALLOWED_VIOLATIONS)
    IN apply_violations(after_last,
                        GroupPositions(stats, N, last_count, FALSE),
                        other_cfg.MAX_ALLOWED_VIOLATIONS)

\* variant: the list built without "not s.ignored_by_violation"
CandidatesWithIgnored(stats) ==
    SelectSeq(stats, LAMBDA s : s.valid /\ s.percentile_price > 0)

\* candidates of lines 313-316
Candidates(stats) ==
    SelectSeq(stats, LAMBDA s :
        s.valid /\ s.percentile_price > 0 /\ ~s.ignored_by_violation)

\* variant: the sort key (percentile_price, idx)
CandBeforeOldest(x, y) ==
    \/ x.percentile_price < y.percentile_price
    \/ (x.percentile_price = y.percentile_price /\ x.idx < y.idx)

\* candidates.sort(key=(percentile_price, -idx)); candidates[0]
CandBefore(x, y) ==
    \/ x.percentile_price < y.percentile_price
    \/ (x.percentile_price = y.percentile_price /\ -x.idx < -y.idx)

Chosen(candidates) ==
    candidates[CHOOSE k \in 1..Len(candidates) :
        \A j \in 1..Len(candidates) :
            j # k => \/ CandBefore(candidates[k], candidates[j])
                     \/ (~CandBefore(candidates[j], candidates[k]) /\ k < j)]

\* the SupportResult of lines 318-353
MakeSupportResult(f, graph_hours, min_range_hours) ==
    LET candidates == Candidates(f.stats)
        base == [method |-> f.method, graph_hours |-> graph_hours,
                 min_range_hours |-> min_range_hours,
                 min_points_share_per_hour |-> f.used_density_share,
                 ranges_count |-> f.N, range_hours |-> f.range_hours,
                 required_points_per_range |-> f.required_points,
                 p_now |-> f.p_now, selected_price |-> Inf,
                 selected_range_idx |-> NoIdx, has_candidate |-> FALSE,
                 notes |-> f.notes, stats |-> f.stats]
    IN IF candidates = <<>>
       THEN [base EXCEPT !.notes = Append(f.notes, Note("no_candidates", f.N, <<>>))]
       ELSE [base EXCEPT !.selected_price = Chosen(candidates).percentile_price,
                         !.selected_range_idx = Chosen(candidates).idx,
                         !.has_candidate = TRUE]

----------------------------------------------------------------------------
(* compute_support_dual: the reconciliation of lines 372-397 *)

\* variant: max() written for min()
BestOfMax(candidates) ==
    candidates[CHOOSE k \in 1..Len(candidates) :
        /\ \A j \in 1..Len(candidates) :
              candidates[k].selected_price >= candidates[j].selected_price
        /\ \A j \in 1..(k - 1) :
              candidates[j].selected_price < candidates[k].selected_price]

\* variant: the last of the smallest
BestOfLast(candidates) ==
    candidates[CHOOSE k \in 1..Len(candidates) :
        /\ \A j \in 1..Len(candidates) :
              candidates[k].selected_price <= candidates[j].selected_price
        /\ \A j \in (k + 1)..Len(candidates) :
              candidates[j].selected_price > candidates[k].selected_price]

\* min(candidates, key=selected_price): the first of the smallest
BestOf(candidates) ==
    candidates[CHOOSE k \in 1..Len(candidates) :
        /\ \A j \in 1..Len(candidates) :
              candidates[k].selected_price <= candidates[j].selected_price
        /\ \A j \in 1..(k - 1) :
              candidates[j].selected_price > candidates[k].selected_price]

\* variant: the fallback taken as soon as the first method has no candidate
CombineFallbackEarly(res1, res2) ==
    LET candidates == IF res1.has_candidate
                      THEN <<res1>> \o (IF res2.has_candidate THEN <<res2>> ELSE <<>>)
                      ELSE <<>>
    IN IF candidates # <<>>
       THEN [res_count_weighted |-> res1, res_points_only |-> res2,
             min_support_price |-> trunc_price_2(BestOf(candidates).selected_price),
             chosen_method |-> BestOf(candidates).method,
             used_fallback_current |-> FALSE]
       ELSE [res_count_weighted |-> res1, res_points_only |-> res2,
             min_support_price |-> trunc_price_2(res1.p_now),
             chosen_method |-> "FALLBACK_CURRENT",
             used_fallback_current |-> TRUE]

Combine(res1, res2) ==
    LET candidates == (IF res1.has_candidate THEN <<res1>> ELSE <<>>)
                      \o (IF res2.has_candidate THEN <<res2>> ELSE <<>>)
    IN IF candidates # <<>>
       THEN [res_count_weighted |-> res1, res_points_only |-> res2,
             min_support_price |-> trunc_price_2(BestOf(candidates).selected_price),
             chosen_method |-> BestOf(candidates).method,
             used_fallback_current |-> FALSE]
       ELSE [res_count_weighted |-> res1, res_points_only |-> res2,
             min_support_price |-> trunc_price_2(res1.p_now),
             chosen_method |-> "FALLBACK_CURRENT",
             used_fallback_current |-> TRUE]

----------------------------------------------------------------------------
(* Explored inputs and configurations *)

TsValues == {0, 3600, 7200, 10800}
PriceValues == {995, 2509}
CountValues == {0, 3}

Obs(ts, price, count) == [ts |-> ts, price |-> price, count |-> count]

\* history lists as the fetchers hand them over: sorted by ts, price > 0,
\* count >= 0 (pulse_client.history_points_to_pricepoints)
SortedInputs(tsS, priceS, countS, maxLen) ==
    UNION {{s \in [1..n -> [ts : tsS, price : priceS, count : countS]] :
               \A k \in 1..(n - 1) : s[k].ts < s[k + 1].ts} : n \in 0..maxLen}

Group(last_range_count, min_share, max_viol, min_window_volume) ==
    [LAST_RANGE_COUNT |-> last_range_count, MIN_SHARE |-> min_share,
     MAX_ALLOWED_VIOLATIONS |-> max_viol, MIN_WINDOW_VOLUME |-> min_window_volume]

\* config_console.PRICE_SUPPORT_PERIODS / PRICE_SUPPORT_PERIODS_POINTS as shipped
\* (an absent LAST_RANGE_COUNT reads as 0)
ShippedPeriods == <<Group(1, 2, 1, 2), Group(0, 2, 9, 4)>>
ShippedPeriodsPoints == <<Group(1, 2, 0, 2), Group(0, 3, 9, 4)>>

\* other settings of the same shape
LoosePeriods == <<Group(1, 2, 0, 1), Group(0, 2, 1, 1)>>
LoosePeriodsPoints == <<Group(1, 2, 0, 1), Group(0, 3, 0, 1)>>
OpenPeriods == <<Group(2, 0, 1, 0), Group(0, 5, 0, 0)>>
ShortPeriods == <<Group(1, 2, 0, 1)>>
NoLastPeriods == <<Group(0, 2, 1, 1), Group(0, 5, 2, 0)>>
ClampedPeriods == <<Group(2, 2, 1, 1), Group(0, 2, -1, 1)>>

PeriodsChoices ==
    {<<ShippedPeriods, ShippedPeriodsPoints>>,
     <<LoosePeriods, LoosePeriodsPoints>>,
     <<OpenPeriods, LoosePeriodsPoints>>,
     <<NoLastPeriods, LoosePeriodsPoints>>,
     <<ClampedPeriods, LoosePeriodsPoints>>,
     <<ShortPeriods, LoosePeriodsPoints>>,
     <<LoosePeriods, ShortPeriods>>}

Config(graph_hours, min_range_hours, density, periods) ==
    [GRAPH_ANALYS_HOURS |-> graph_hours, MIN_RANGE_HOURS |-> min_range_hours,
     MIN_POINTS_SHARE_PER_HOUR |-> density,
     PRICE_SUPPORT_PERIODS |-> periods[1],
     PRICE_SUPPORT_PERIODS_POINTS |-> periods[2]]

\* window and minimum-range hours, density settings and overrides
HourPairs == {<<-1, 1>>, <<0, 1>>, <<0, 2>>, <<1, 2>>, <<2, 1>>, <<2, 2>>,
              <<3, 1>>, <<3, 2>>}
DensityValues == {0, 50, 100}
OverrideValues == {NoOverride, 0, 100}

\* every partition setting, on histories that differ in their timestamps
PartitionCases ==
    {<<Config(h[1], h[2], d, <<LoosePeriods, LoosePeriodsPoints>>), o, s>> :
        h \in HourPairs, d \in DensityValues, o \in OverrideValues,
        s \in SortedInputs(TsValues, {995}, {3}, MaxPoints)}

\* every threshold setting, on histories that differ in price and volume too
ResultCases ==
    {<<Config(h[1], h[2], h[3], p), h[4], s>> :
        h \in {<<3, 1, 0, NoOverride>>, <<2, 1, 100, NoOverride>>,
               <<2, 2, 50, 0>>},
        p \in PeriodsChoices,
        s \in SortedInputs(TsValues, PriceValues, CountValues, MaxPoints)}

\* the shipped window of 24 hours in one range, the density set or
\* overridden to 0, on ten sales of 5 items at 1.000 spread evenly over a
\* day; the shipped threshold groups, and the same with no outlier budget
\* in the last group of the volume-weighted method
EvenlySpread(first_ts, step) == [k \in 1..10 |-> Obs(first_ts + (k - 1) * step, 1000, 5)]

ShippedPeriodsNoBudget == <<Group(1, 2, 0, 2), Group(0, 2, 9, 4)>>

ScenarioCases ==
    {<<Config(24, 24, h[1], <<p, ShippedPeriodsPoints>>), h[2], EvenlySpread(t, step)>> :
        h \in {<<0, NoOverride>>, <<50, 0>>},
        p \in {ShippedPeriods, ShippedPeriodsNoBudget},
        t \in {0, 1000000}, step \in {8640, 9600}}

Cases == PartitionCases \cup ResultCases \cup ScenarioCases

----------------------------------------------------------------------------
(* Initial states *)

Idle(c) == c # 1

Init ==
    \E case \in Cases :
        /\ config = case[1]
        /\ density_share_override = [c \in Calls |-> case[2]]
        /\ points = [c \in Calls |-> IF Idle(c) THEN <<>> ELSE case[3]]
        /\ pc = [c \in Calls |-> IF Idle(c) THEN "idle" ELSE "call"]
        /\ frame = [c \in Calls |-> NoFrame]
        /\ res = [c \in Calls |-> <<>>]
        /\ out = [c \in Calls |-> NoOut]
        /\ tx = 0
        /\ tr = <<>>
        /\ qx = NoPairs
        /\ qr = <<>>

----------------------------------------------------------------------------
(* Steps of one call c of compute_support_dual *)

Raise(c, msg) ==
    /\ pc' = [pc EXCEPT ![c] = "done"]
    /\ out' = [out EXCEPT ![c] = Raised(msg)]
    /\ UNCHANGED <<frame, res>>

\* lines 357-363: enter _compute_support_with_periods for COUNT_WEIGHTED
CallCountWeighted(c) ==
    /\ pc[c] = "call"
    /\ frame' = [frame EXCEPT ![c] =
                    NewFrame("COUNT_WEIGHTED", config.PRICE_SUPPORT_PERIODS, TRUE)]
    /\ pc' = [pc EXCEPT ![c] = "filter"]
    /\ UNCHANGED <<config, points, density_share_override, res, out, tx, tr, qx, qr>>

\* lines 364-370: enter _compute_support_with_periods for POINTS_ONLY
CallPointsOnly(c) ==
    /\ pc[c] = "call2"
    /\ frame' = [frame EXCEPT ![c] =
                    NewFrame("POINTS_ONLY", config.PRICE_SUPPORT_PERIODS_POINTS, FALSE)]
    /\ pc' = [pc EXCEPT ![c] = "filter"]
    /\ UNCHANGED <<config, points, density_share_override, res, out, tx, tr, qx, qr>>

\* variant: "override or configured", which drops an override of 0.0
UsedDensityShareFalsy(override) ==
    IF override = NoOverride \/ override = 0
    THEN config.MIN_POINTS_SHARE_PER_HOUR ELSE override

\* used_density_share of lines 192-194
UsedDensityShare(override) ==
    IF override = NoOverride THEN config.MIN_POINTS_SHARE_PER_HOUR ELSE override

\* variant: an empty window falls back to the whole history instead of raising
FilterPointsKeepAll(c) ==
    /\ pc[c] = "filter"
    /\ LET filtered == _filter_last_hours(points[c], config.GRAPH_ANALYS_HOURS)
           pts == IF filtered = <<>> THEN points[c] ELSE filtered
       IN IF points[c] = <<>> THEN Raise(c, "Empty points")
          ELSE /\ frame' = [frame EXCEPT ![c].pts = pts,
                                         ![c].notes = <<>>,
                                         ![c].p_now = pts[Len(pts)].price,
                                         ![c].used_density_share =
                                             UsedDensityShare(density_share_override[c])]
               /\ pc' = [pc EXCEPT ![c] = "pick"]
               /\ UNCHANGED <<res, out>>
    /\ UNCHANGED <<config, points, density_share_override, tx, tr, qx, qr>>

\* lines 180-194: the window filter, p_now and the density in force
FilterPoints(c) ==
    /\ pc[c] = "filter"
    /\ LET pts == _filter_last_hours(points[c], config.GRAPH_ANALYS_HOURS)
           notes == IF Len(pts) < Len(points[c])
                    THEN <<Note("filtered", Len(pts), <<Len(points[c])>>)>>
                    ELSE <<>>
       IN IF points[c] = <<>> THEN Raise(c, "Empty points")
          ELSE IF pts = <<>> THEN Raise(c, "No points in selected Graph_Analys window")
          ELSE /\ frame' = [frame EXCEPT ![c].pts = pts,
                                         ![c].notes = notes,
                                         ![c].p_now = pts[Len(pts)].price,
                                         ![c].used_density_share =
                                             UsedDensityShare(density_share_override[c])]
               /\ pc' = [pc EXCEPT ![c] = "pick"]
               /\ UNCHANGED <<res, out>>
    /\ UNCHANGED <<config, points, density_share_override, tx, tr, qx, qr>>

\* variant: a minimum range of one hour passed, whatever is configured
PickArgsHourly(c) ==
    [points |-> frame[c].pts,
     graph_hours |-> config.GRAPH_ANALYS_HOURS,
     min_range_hours |-> 1,
     density_share |-> frame[c].used_density_share]

\* lines 196-201: the arguments _compute_support_with_periods passes to
\* _pick_range_partition
PickArgs(c) ==
    [points |-> frame[c].pts,
     graph_hours |-> config.GRAPH_ANALYS_HOURS,
     min_range_hours |-> config.MIN_RANGE_HOURS,
     density_share |-> frame[c].used_density_share]

\* lines 107-122: _pick_range_partition up to the start of its search
PickBegin(c) ==
    /\ pc[c] = "pick"
    /\ LET f == frame[c]
           W == PickArgs(c).graph_hours
           L == PickArgs(c).min_range_hours
       IN IF W <= 0
          THEN /\ frame' = [frame EXCEPT ![c].N = 1,
                                         ![c].range_hours = Fraction(Max2(1, L), 1),
                                         ![c].required_points = 1,
                                         ![c].notes = Append(f.notes,
                                             Note("graph_hours<=0", 1, <<>>))]
               /\ pc' = [pc EXCEPT ![c] = "periods"]
          ELSE /\ frame' = [frame EXCEPT ![c].n_try = PickNMax(W, L),
                                         ![c].notes = Append(f.notes,
                                             Note("search", PickNMax(W, L), <<>>))]
               /\ pc' = [pc EXCEPT ![c] = "try"]
    /\ UNCHANGED <<config, points, density_share_override, res, out, tx, tr, qx, qr>>

\* the notes of a failed try, lines 149-156
FailNotes(N, required_points, counts) ==
    LET failed == SelectSeq([k \in 1..N |-> k], LAMBDA k : counts[k] < required_points)
    IN <<Note("fail", N, <<required_points, Len(failed)>>)>>
       \o [j \in 1..Len(failed) |->
             Note("fail_range", N, <<failed[j] - 1, counts[failed[j]], required_points>>)]
       \o <<Note("counts", N, counts)>>

\* lines 124-163: one pass of the search loop, for N = n_try
PickTry(c) ==
    /\ pc[c] = "try"
    /\ frame[c].n_try >= 1
    /\ LET f == frame[c]
           N == f.n_try
           W == PickArgs(c).graph_hours
           required_points == RequiredPoints(W, N, PickArgs(c).density_share)
           counts == PickCounts(PickArgs(c).points, W, N)
       IN IF BelowMinRange(W, N, PickArgs(c).min_range_hours)
          THEN /\ frame' = [frame EXCEPT ![c].n_try = N - 1,
                                         ![c].notes = Append(f.notes, Note("skip", N, <<>>))]
               /\ pc' = pc
          ELSE IF \E k \in 1..N : counts[k] < required_points
          THEN /\ frame' = [frame EXCEPT ![c].n_try = N - 1,
                                         ![c].notes = f.notes
                                             \o FailNotes(N, required_points, counts)]
               /\ pc' = pc
          ELSE /\ frame' = [frame EXCEPT ![c].N = N,
                                         ![c].range_hours = Fraction(W, N),
                                         ![c].required_points = required_points,
                                         ![c].notes = f.notes
                                             \o <<Note("ok", N, <<required_points>>),
                                                  Note("counts", N, counts)>>]
               /\ pc' = [pc EXCEPT ![c] = "periods"]
    /\ UNCHANGED <<config, points, density_share_override, res, out, tx, tr, qx, qr>>

\* lines 165-169: the search ran out of N
PickFallback(c) ==
    /\ pc[c] = "try"
    /\ frame[c].n_try < 1
    /\ LET f == frame[c]
           W == PickArgs(c).graph_hours
       IN frame' = [frame EXCEPT ![c].N = 1,
                                 ![c].range_hours = Fraction(W, 1),
                                 ![c].required_points =
                                     RequiredPoints(W, 1, PickArgs(c).density_share),
                                 ![c].notes = Append(f.notes, Note("fallback", 1, <<>>))]
    /\ pc' = [pc EXCEPT ![c] = "periods"]
    /\ UNCHANGED <<config, points, density_share_override, res, out, tx, tr, qx, qr>>

\* variant: a short periods list is replaced by the shipped one instead of raising
CheckPeriodsDefault(c) ==
    /\ pc[c] = "periods"
    /\ LET f == frame[c]
           periods == IF Len(f.periods) < 2 THEN ShippedPeriods ELSE f.periods
       IN /\ frame' = [frame EXCEPT ![c].periods = periods,
                                    ![c].last_count = LastCount(periods[1], f.N),
                                    ![c].i = 0,
                                    ![c].stats = <<>>]
          /\ pc' = [pc EXCEPT ![c] = "stats"]
          /\ UNCHANGED <<res, out>>
    /\ UNCHANGED <<config, points, density_share_override, tx, tr, qx, qr>>

\* lines 204-225: the periods check, last_count and the empty stats list
CheckPeriods(c) ==
    /\ pc[c] = "periods"
    /\ LET f == frame[c]
       IN IF Len(f.periods) < 2
          THEN Raise(c, "periods must be a list of at least 2 dicts")
          ELSE /\ frame' = [frame EXCEPT ![c].last_count = LastCount(f.periods[1], f.N),
                                         ![c].i = 0,
                                         ![c].stats = <<>>,
                                         ![c].notes = Append(f.notes,
                                             Note(IF f.use_counts_for_share
                                                  THEN "uses_sales" ELSE "uses_points",
                                                  f.N, <<>>))]
               /\ pc' = [pc EXCEPT ![c] = "stats"]
               /\ UNCHANGED <<res, out>>
    /\ UNCHANGED <<config, points, density_share_override, tx, tr, qx, qr>>

\* variant: an invalid sub-range is skipped without stats.append(st)
BuildStatSkipInvalid(c) ==
    /\ pc[c] = "stats"
    /\ LET f == frame[c]
           st == BuildRangeStat(f.pts, config.GRAPH_ANALYS_HOURS, f.N, f.i,
                                f.last_count, f.periods, f.use_counts_for_share)
       IN /\ frame' = [frame EXCEPT ![c].stats = IF st.valid THEN Append(f.stats, st)
                                                            ELSE f.stats,
                                    ![c].i = f.i + 1]
          /\ pc' = [pc EXCEPT ![c] = IF f.i + 1 < f.N THEN "stats" ELSE "violations"]
    /\ UNCHANGED <<config, points, density_share_override, res, out, tx, tr, qx, qr>>

\* variant: stats kept in one list shared by all calls (that of call 1)
BuildStatShared(c) ==
    /\ pc[c] = "stats"
    /\ LET f == frame[c]
           st == BuildRangeStat(f.pts, config.GRAPH_ANALYS_HOURS, f.N, f.i,
                                f.last_count, f.periods, f.use_counts_for_share)
       IN /\ frame' = [frame EXCEPT ![1].stats = Append(frame[1].stats, st),
                                    ![c].i = f.i + 1]
          /\ pc' = [pc EXCEPT ![c] = IF f.i + 1 < f.N THEN "stats" ELSE "violations"]
    /\ UNCHANGED <<config, points, density_share_override, res, out, tx, tr, qx, qr>>

\* lines 227-296: one pass of the stats loop, for sub-range i
BuildStat(c) ==
    /\ pc[c] = "stats"
    /\ LET f == frame[c]
           st == BuildRangeStat(f.pts, config.GRAPH_ANALYS_HOURS, f.N, f.i,
                                f.last_count, f.periods, f.use_counts_for_share)
       IN /\ frame' = [frame EXCEPT ![c].stats = Append(f.stats, st),
                                    ![c].i = f.i + 1]
          /\ pc' = [pc EXCEPT ![c] = IF f.i + 1 < f.N THEN "stats" ELSE "violations"]
    /\ UNCHANGED <<config, points, density_share_override, res, out, tx, tr, qx, qr>>

\* variant: an unstable sort in apply_violations, equal prices in any order
CheapestSets(stats, group, max_viol) ==
    LET valid == {group[j] : j \in {j \in 1..Len(group) :
                     stats[group[j]].valid /\ stats[group[j]].percentile_price > 0}}
        take == IF Max2(0, max_viol) < Cardinality(valid) THEN Max2(0, max_viol)
                                                        ELSE Cardinality(valid)
    IN {M \in SUBSET valid :
          /\ Cardinality(M) = take
          /\ \A m \in M : \A n \in valid \ M :
                stats[m].percentile_price <= stats[n].percentile_price}

ApplyViolationsUnstable(c) ==
    /\ pc[c] = "violations"
    /\ LET f == frame[c]
       IN \E M1 \in CheapestSets(f.stats, GroupPositions(f.stats, f.N, f.last_count, TRUE),
                                 f.periods[1].MAX_ALLOWED_VIOLATIONS),
             M2 \in CheapestSets(f.stats, GroupPositions(f.stats, f.N, f.last_count, FALSE),
                                 f.periods[2].MAX_ALLOWED_VIOLATIONS) :
             frame' = [frame EXCEPT ![c].stats =
                          [k \in 1..Len(f.stats) |->
                              IF k \in M1 \cup M2
                              THEN [f.stats[k] EXCEPT !.ignored_by_violation = TRUE]
                              ELSE f.stats[k]]]
    /\ pc' = [pc EXCEPT ![c] = "select"]
    /\ UNCHANGED <<config, points, density_share_override, res, out, tx, tr, qx, qr>>

\* lines 298-311: outlier suppression in the last group, then in the other
ApplyViolations(c) ==
    /\ pc[c] = "violations"
    /\ LET f == frame[c]
       IN frame' = [frame EXCEPT ![c].stats =
                       ApplyBothViolations(f.stats, f.N, f.last_count,
                                           f.periods[1], f.periods[2])]
    /\ pc' = [pc EXCEPT ![c] = "select"]
    /\ UNCHANGED <<config, points, density_share_override, res, out, tx, tr, qx, qr>>

\* lines 313-353: candidate selection and return of the SupportResult
SelectCandidate(c) ==
    /\ pc[c] = "select"
    /\ res' = [res EXCEPT ![c] = Append(res[c],
                  MakeSupportResult(frame[c], config.GRAPH_ANALYS_HOURS,
                                    config.MIN_RANGE_HOURS))]
    /\ pc' = [pc EXCEPT ![c] = IF Len(res[c]) = 0 THEN "call2" ELSE "combine"]
    /\ UNCHANGED <<config, points, density_share_override, frame, out, tx, tr, qx, qr>>

\* lines 372-397: reconciliation of the two methods
CombineDual(c) ==
    /\ pc[c] = "combine"
    /\ out' = [out EXCEPT ![c] = Returned(Combine(res[c][1], res[c][2]))]
    /\ pc' = [pc EXCEPT ![c] = "done"]
    /\ UNCHANGED <<config, points, density_share_override, frame, res, tx, tr, qx, qr>>

Next ==
    \E c \in Calls :
        \/ CallCountWeighted(c)
        \/ FilterPoints(c)
        \/ PickBegin(c)
        \/ PickTry(c)
        \/ PickFallback(c)
        \/ CheckPeriods(c)
        \/ BuildStat(c)
        \/ ApplyViolations(c)
        \/ SelectCandidate(c)
        \/ CallPointsOnly(c)
        \/ CombineDual(c)

Spec == Init /\ [][Next]_vars

\* two calls on the same history, configuration and override, stepped side
\* by side in any interleaving
PairCases ==
    {<<Config(h[1], h[2], h[3], p), NoOverride, s>> :
        h \in {<<3, 1, 0>>}, p \in {<<LoosePeriods, LoosePeriodsPoints>>},
        s \in SortedInputs(TsValues, PriceValues, {3}, MaxPoints)}
    \cup
    {<<Config(h[1], h[2], h[3], p), NoOverride, s>> :
        h \in {<<2, 1, 100>>}, p \in {<<ShippedPeriods, ShippedPeriodsPoints>>},
        s \in SortedInputs({0, 7200, 10800}, {995}, CountValues, MaxPoints)}

InitPair ==
    \E case \in PairCases :
        /\ config = case[1]
        /\ density_share_override = [c \in Calls |-> case[2]]
        /\ points = [c \in Calls |-> case[3]]
        /\ pc = [c \in Calls |-> "call"]
        /\ frame = [c \in Calls |-> NoFrame]
        /\ res = [c \in Calls |-> <<>>]
        /\ out = [c \in Calls |-> NoOut]
        /\ tx = 0
        /\ tr = <<>>
        /\ qx = NoPairs
        /\ qr = <<>>

SpecPair == InitPair /\ [][Next]_vars

\* two calls in flight at once, each on its own history and with its own
\* override, stepped in any interleaving
ConcurrentCases ==
    {<<Config(2, 1, 100, <<LoosePeriods, LoosePeriodsPoints>>), s1, s2>> :
        s1 \in SortedInputs({0, 3600, 7200}, PriceValues, {3}, 2),
        s2 \in SortedInputs({0, 7200}, {995}, CountValues, 2)}

InitConcurrent ==
    \E case \in ConcurrentCases :
        /\ config = case[1]
        /\ density_share_override = [c \in Calls |-> IF c = 1 THEN NoOverride ELSE 0]
        /\ points = [c \in Calls |-> case[c + 1]]
        /\ pc = [c \in Calls |-> "call"]
        /\ frame = [c \in Calls |-> NoFrame]
        /\ res = [c \in Calls |-> <<>>]
        /\ out = [c \in Calls |-> NoOut]
        /\ tx = 0
        /\ tr = <<>>
        /\ qx = NoPairs
        /\ qr = <<>>

SpecConcurrent == InitConcurrent /\ [][Next]_vars

----------------------------------------------------------------------------
(* The stand-alone call of trunc_price_2 *)

InitTrunc ==
    /\ tx \in 0..MaxTruncInput
    /\ tr = <<>>
    /\ config = Config(3, 1, 0, <<LoosePeriods, LoosePeriodsPoints>>)
    /\ density_share_override = [c \in Calls |-> NoOverride]
    /\ points = [c \in Calls |-> <<>>]
    /\ pc = [c \in Calls |-> "idle"]
    /\ frame = [c \in Calls |-> NoFrame]
    /\ res = [c \in Calls |-> <<>>]
    /\ out = [c \in Calls |-> NoOut]
    /\ qx = NoPairs
    /\ qr = <<>>

ApplyTrunc ==
    /\ tr = <<>>
    /\ tr' = <<trunc_price_2(tx)>>
    /\ UNCHANGED <<config, points, density_share_override, pc, frame, res, out, tx, qx, qr>>

SpecTrunc == InitTrunc /\ [][ApplyTrunc]_vars

----------------------------------------------------------------------------
(* The stand-alone calls of _weighted_quantile: up to two calls on the same *)
(* prices and weights, each at its own q (in tenths).                      *)

QuantilePrices == {995, 1000, 2509}
WeightValues == {-1, 0, 1, 3}
QValues == {0, 5, 8, 10}

PairLists(maxLen) ==
    UNION {{Pairs(p, w) : p \in [1..n -> QuantilePrices], w \in [1..n -> WeightValues]} :
              n \in 0..maxLen}

QuantileCall(q, ret) == [q |-> q, ret |-> ret]

InitQuantile ==
    /\ qx \in PairLists(MaxPairs)
    /\ qr = <<>>
    /\ tx = 0
    /\ tr = <<>>
    /\ config = Config(3, 1, 0, <<LoosePeriods, LoosePeriodsPoints>>)
    /\ density_share_override = [c \in Calls |-> NoOverride]
    /\ points = [c \in Calls |-> <<>>]
    /\ pc = [c \in Calls |-> "idle"]
    /\ frame = [c \in Calls |-> NoFrame]
    /\ res = [c \in Calls |-> <<>>]
    /\ out = [c \in Calls |-> NoOut]

ApplyQuantile ==
    /\ Len(qr) < 2
    /\ \E q \in QValues :
          qr' = Append(qr, QuantileCall(q, _weighted_quantile(qx.prices, qx.weights, q)))
    /\ UNCHANGED <<config, points, density_share_override, pc, frame, res, out, tx, tr, qx>>

SpecQuantile == InitQuantile /\ [][ApplyQuantile]_vars

----------------------------------------------------------------------------
(* Properties *)

\* what a finished call c returned
HasReturned(c) == pc[c] = "done" /\ out[c].status = "returned"
Dual(c) == out[c].dual[1]
MethodResults(d) == {d.res_count_weighted, d.res_points_only}
WithCandidate(d) == {r \in MethodResults(d) : r.has_candidate}

\* t is x cut to whole hundredths, toward zero (x >= 0)
IsTruncationOf(t, x) ==
    /\ t % CentUnits = 0
    /\ t <= x
    /\ x < t + CentUnits

SetMin(S) == CHOOSE x \in S : \A y \in S : x <= y

LastInputPrice(c) == points[c][Len(points[c])].price

\* C1: when at least one method has a candidate, min_support_price is the
\* 2-decimal truncation of the lowest selected_price among the methods with
\* a candidate, chosen_method names a method with a candidate whose
\* selected_price is that lowest one, the fallback flag is off, and a method
\* without a candidate (selected_price infinite) is never the chosen one.
C1_MinOverCandidates ==
    \A c \in Calls :
        (HasReturned(c) /\ WithCandidate(Dual(c)) # {}) =>
            LET d == Dual(c)
                lowest == SetMin({r.selected_price : r \in WithCandidate(d)})
            IN /\ IsTruncationOf(d.min_support_price, lowest)
               /\ \E r \in WithCandidate(d) :
                     r.selected_price = lowest /\ d.chosen_method = r.method
               /\ d.used_fallback_current = FALSE
               /\ \A r \in MethodResults(d) :
                     ~r.has_candidate =>
                         r.selected_price = Inf /\ d.chosen_method # r.method

\* C1 witness: both methods have a candidate, POINTS_ONLY the cheaper one
C1_Witness ==
    \E c \in Calls :
        /\ HasReturned(c)
        /\ Dual(c).res_count_weighted.has_candidate
        /\ Dual(c).res_points_only.has_candidate
        /\ Dual(c).res_points_only.selected_price
               < Dual(c).res_count_weighted.selected_price
        /\ Dual(c).chosen_method = "POINTS_ONLY"

\* C2 as stated: when neither method has a candidate the call returns the
\* most recent observation's price exactly, with chosen_method
\* FALLBACK_CURRENT and the fallback flag set, and the fallback is used in no
\* other case.
C2_FallbackExactPrice ==
    \A c \in Calls :
        /\ (pc[c] = "done" /\ Len(res[c]) = 2) => out[c].status = "returned"
        /\ HasReturned(c) =>
              LET d == Dual(c)
                  fallback == d.chosen_method = "FALLBACK_CURRENT"
              IN /\ (WithCandidate(d) = {}) <=> fallback
                 /\ fallback <=> d.used_fallback_current
                 /\ fallback => d.min_support_price = LastInputPrice(c)

\* C2 amended: as above, the returned price being the 2-decimal truncation
\* of the most recent observation's price.
C2_FallbackTruncatedPrice ==
    \A c \in Calls :
        /\ (pc[c] = "done" /\ Len(res[c]) = 2) => out[c].status = "returned"
        /\ HasReturned(c) =>
              LET d == Dual(c)
                  fallback == d.chosen_method = "FALLBACK_CURRENT"
              IN /\ (WithCandidate(d) = {}) <=> fallback
                 /\ fallback <=> d.used_fallback_current
                 /\ fallback =>
                       IsTruncationOf(d.min_support_price, LastInputPrice(c))

\* C2 witness: the fallback applied to a price with a third decimal
C2_Witness ==
    \E c \in Calls :
        /\ HasReturned(c)
        /\ Dual(c).used_fallback_current
        /\ LastInputPrice(c) % CentUnits # 0
        /\ Dual(c).min_support_price < LastInputPrice(c)

\* C3: for x >= 0, trunc_price_2(x) <= x, x - trunc_price_2(x) < 0.01 and
\* trunc_price_2(x) is a whole number of hundredths.
C3_TruncNeverRoundsUp ==
    (tr # <<>> /\ tx >= 0) =>
        /\ tr[1] <= tx
        /\ tx - tr[1] < CentUnits
        /\ tr[1] % CentUnits = 0

\* C3 witness: a price whose dropped digit would round up
C3_Witness ==
    /\ tr # <<>>
    /\ tx % CentUnits >= 5
    /\ tr[1] < tx

\* the call has observations, and some lie in the trailing window
WindowStart(c) ==
    points[c][Len(points[c])].ts - config.GRAPH_ANALYS_HOURS * SecondsPerHour
NonEmptyWindow(c) ==
    /\ points[c] # <<>>
    /\ \E k \in 1..Len(points[c]) : points[c][k].ts >= WindowStart(c)

InputError(c) ==
    /\ out[c].status = "raised"
    /\ out[c].dual = <<>>
    /\ out[c].error = IF points[c] = <<>>
                      THEN "Empty points"
                      ELSE "No points in selected Graph_Analys window"

ConfigurationError(c) ==
    /\ out[c].status = "raised"
    /\ out[c].dual = <<>>
    /\ out[c].error = "periods must be a list of at least 2 dicts"

\* C4: a call on an empty sequence, or on one that is empty after window
\* filtering, fails with the input error: it never gets past the filter,
\* no method result is produced and no DualSupportResult is returned.
C4_EmptyInputFails ==
    \A c \in Calls :
        (pc[c] # "idle" /\ ~NonEmptyWindow(c)) =>
            /\ pc[c] \in {"call", "filter", "done"}
            /\ res[c] = <<>>
            /\ pc[c] = "done" => InputError(c)

\* C4 witness: a non-empty sequence that the window filter empties
C4_Witness ==
    \E c \in Calls :
        /\ pc[c] = "done"
        /\ points[c] # <<>>
        /\ ~NonEmptyWindow(c)
        /\ out[c].status = "raised"

ShortPeriodsList ==
    \/ Len(config.PRICE_SUPPORT_PERIODS) < 2
    \/ Len(config.PRICE_SUPPORT_PERIODS_POINTS) < 2

\* C5 as stated: with fewer than two threshold groups for either method the
\* call fails with the configuration error and returns no result.
C5_ShortPeriodsConfigError ==
    \A c \in Calls :
        (pc[c] = "done" /\ ShortPeriodsList) => ConfigurationError(c)

\* C5 amended: with fewer than two threshold groups for either method the
\* call fails and returns no result; the failure is the configuration error
\* when the window holds observations, and the input error otherwise (the
\* input is checked first).
C5_ShortPeriodsFail ==
    \A c \in Calls :
        (pc[c] = "done" /\ ShortPeriodsList) =>
            IF NonEmptyWindow(c) THEN ConfigurationError(c) ELSE InputError(c)

\* C5 witness: COUNT_WEIGHTED is configured well and found a candidate, the
\* POINTS_ONLY list is short, and the call failed
C5_Witness ==
    \E c \in Calls :
        /\ pc[c] = "done"
        /\ Len(config.PRICE_SUPPORT_PERIODS_POINTS) < 2
        /\ Len(res[c]) = 1
        /\ res[c][1].has_candidate
        /\ ConfigurationError(c)

ValidConfig ==
    /\ config.GRAPH_ANALYS_HOURS > 0
    /\ config.MIN_RANGE_HOURS > 0
    /\ ~ShortPeriodsList

HasNote(r, tag) == \E k \in 1..Len(r.notes) : r.notes[k].tag = tag

\* C6: on a non-empty sequence under a valid configuration the call never
\* raises and ends by returning; every method result holds exactly N
\* RangeStats, indexed 0..N-1, and every invalid one carries a reason.
C6_LocalInvalidityNeverRaises ==
    \A c \in Calls :
        (pc[c] # "idle" /\ points[c] # <<>> /\ ValidConfig) =>
            /\ out[c].status # "raised"
            /\ pc[c] = "done" => (out[c].status = "returned" /\ Len(res[c]) = 2)
            /\ \A m \in 1..Len(res[c]) :
                  LET r == res[c][m]
                  IN /\ Len(r.stats) = r.ranges_count
                     /\ \A k \in 1..Len(r.stats) :
                           /\ r.stats[k].idx = k - 1
                           /\ ~r.stats[k].valid => r.stats[k].invalid_reason # ""

\* C6 witness: no partition met the density, the forced single range is
\* invalid for lack of volume, and the call still returned
C6_Witness ==
    \E c \in Calls :
        /\ HasReturned(c)
        /\ ValidConfig
        /\ HasNote(Dual(c).res_count_weighted, "fallback")
        /\ \E k \in 1..Len(Dual(c).res_count_weighted.stats) :
              Dual(c).res_count_weighted.stats[k].invalid_reason
                  = "sales<min_window_volume"

GraphHours == config.GRAPH_ANALYS_HOURS
MinRangeHours == config.MIN_RANGE_HOURS
DensityInForce(c) ==
    IF density_share_override[c] = NoOverride
    THEN config.MIN_POINTS_SHARE_PER_HOUR
    ELSE density_share_override[c]
NMaxOf(c) == Max2(1, GraphHours \div MinRangeHours)
WindowEnd(c) == points[c][Len(points[c])].ts
SubRangeLo(c, n, i) == WindowStart(c) + (i * GraphHours * SecondsPerHour) \div n
SubRangeHi(c, n, i) ==
    IF i < n - 1 THEN WindowStart(c) + ((i + 1) * GraphHours * SecondsPerHour) \div n
                 ELSE WindowEnd(c) + 1
SubRangeCount(c, n, i) ==
    Cardinality({k \in 1..Len(points[c]) :
        /\ points[c][k].ts >= WindowStart(c)
        /\ SubRangeLo(c, n, i) <= points[c][k].ts
        /\ points[c][k].ts < SubRangeHi(c, n, i)})
\* W / n >= L, and every sub-range holds at least ceil((W / n) * D) points
Qualifies(c, n) ==
    /\ GraphHours >= MinRangeHours * n
    /\ \A i \in 0..(n - 1) :
          SubRangeCount(c, n, i) * n * DensityScale >= GraphHours * DensityInForce(c)
Qualifying(c) == {n \in 1..NMaxOf(c) : Qualifies(c, n)}
SetMax(S) == CHOOSE x \in S : \A y \in S : x >= y
Tries(r) == SelectSeq(r.notes, LAMBDA nt : nt.tag \in {"skip", "fail", "ok"})
PartitionKnown(c) == pc[c] \in {"periods", "stats", "violations", "select"}

\* C8: under a valid configuration the partition count N is at least 1, and
\* window_hours / N >= min_range_hours unless N = 1.
C8_PartitionCount ==
    \A c \in Calls :
        (pc[c] # "idle" /\ NonEmptyWindow(c) /\ ValidConfig) =>
            /\ PartitionKnown(c) =>
                  /\ frame[c].N >= 1
                  /\ (GraphHours >= MinRangeHours * frame[c].N \/ frame[c].N = 1)
            /\ \A m \in 1..Len(res[c]) :
                  /\ res[c][m].ranges_count >= 1
                  /\ \/ GraphHours >= MinRangeHours * res[c][m].ranges_count
                     \/ res[c][m].ranges_count = 1

\* C8 witness: a result with three sub-ranges, each as long as the minimum
C8_Witness ==
    \E c \in Calls :
        /\ HasReturned(c)
        /\ ValidConfig
        /\ Dual(c).res_count_weighted.ranges_count = 3
        /\ GraphHours = MinRangeHours * 3

\* C9: the search tries N = N_max, N_max - 1, ... in this order and returns
\* the largest N in [1, N_max] with W / N >= L whose N sub-ranges all hold
\* at least ceil((W / N) * D) filtered observations; if there is none it
\* returns N = 1 with range_hours = W.
C9_LargestQualifyingPartition ==
    \A c \in Calls :
        (pc[c] # "idle" /\ NonEmptyWindow(c) /\ ValidConfig) =>
            \A m \in 1..Len(res[c]) :
                LET r == res[c][m]
                    tries == Tries(r)
                IN /\ \A j \in 1..Len(tries) : tries[j].n = NMaxOf(c) - j + 1
                   /\ r.range_hours.num * r.ranges_count
                          = GraphHours * r.range_hours.den
                   /\ IF Qualifying(c) # {}
                      THEN /\ r.ranges_count = SetMax(Qualifying(c))
                           /\ tries[Len(tries)].tag = "ok"
                           /\ tries[Len(tries)].n = r.ranges_count
                           /\ ~HasNote(r, "fallback")
                      ELSE /\ r.ranges_count = 1
                           /\ r.range_hours = Fraction(GraphHours, 1)
                           /\ Len(tries) = NMaxOf(c)
                           /\ HasNote(r, "fallback")

\* C9 witness: N = 3 failed the density, N = 2 was accepted
C9_Witness ==
    \E c \in Calls :
        /\ HasReturned(c)
        /\ ValidConfig
        /\ NMaxOf(c) = 3
        /\ Dual(c).res_count_weighted.ranges_count = 2
        /\ HasNote(Dual(c).res_count_weighted, "fail")

\* C10: with density 0 in force (configured, or overridden to 0 whatever is
\* configured) required_points is 0, no N fails the density and the
\* partition is N = max(1, floor(W / L)), empty sub-ranges included.
C10_ZeroDensity ==
    \A c \in Calls :
        (pc[c] # "idle" /\ NonEmptyWindow(c) /\ ValidConfig
            /\ DensityInForce(c) = 0) =>
            /\ PartitionKnown(c) => frame[c].N = NMaxOf(c)
            /\ \A m \in 1..Len(res[c]) :
                  /\ res[c][m].required_points_per_range = 0
                  /\ res[c][m].ranges_count = NMaxOf(c)
                  /\ res[c][m].min_points_share_per_hour = 0
                  /\ ~HasNote(res[c][m], "fail")

\* C10 witness: a configured density of 1 per hour overridden to 0, three
\* sub-ranges selected although one of them is empty
C10_Witness ==
    \E c \in Calls :
        /\ HasReturned(c)
        /\ config.MIN_POINTS_SHARE_PER_HOUR = 100
        /\ density_share_override[c] = 0
        /\ Dual(c).res_points_only.ranges_count = 3
        /\ \E k \in 1..3 : Dual(c).res_points_only.stats[k].points_count = 0

\* the prices and weights of the quantile calls, as the claims speak of them
PriceSet == {qx.prices[k] : k \in 1..Len(qx.prices)}
PositivePairs == {k \in 1..Len(qx.prices) : qx.weights[k] > 0}
TotalPositiveWeight ==
    SumSeq([k \in 1..Len(qx.prices) |-> IF k \in PositivePairs THEN qx.weights[k] ELSE 0])
\* the summed weight of the positive-weight pairs priced at most p
WeightUpTo(p) ==
    SumSeq([k \in 1..Len(qx.prices) |->
               IF k \in PositivePairs /\ qx.prices[k] <= p THEN qx.weights[k] ELSE 0])

\* C11: on a non-empty list of pairs, whatever the weights, the quantile at
\* q = 0 is the minimum of all prices and at q = 1 the maximum of all prices.
C11_QuantileEnds ==
    \A k \in 1..Len(qr) :
        qx.prices # <<>> =>
            /\ qr[k].q = 0 => qr[k].ret = SetMin(PriceSet)
            /\ qr[k].q = ShareScale => qr[k].ret = SetMax(PriceSet)

\* C11 witness: q = 0 returned the price of a pair of weight zero, cheaper
\* than every pair with weight, and q = 1 the price of another such pair
C11_Witness ==
    /\ Len(qr) = 2
    /\ qr[1].q = 0 /\ qr[2].q = ShareScale
    /\ PositivePairs # {}
    /\ \A k \in PositivePairs : qr[1].ret < qx.prices[k] /\ qx.prices[k] < qr[2].ret

NonNegativeWeights == \A k \in 1..Len(qx.weights) : qx.weights[k] >= 0

\* C12 as stated: for a non-empty list of positive prices with non-negative
\* weights and q1 <= q2 in [0, 1], the quantile at q1 is at most the
\* quantile at q2.
C12_MonotoneInQ ==
    (Len(qr) = 2 /\ qx.prices # <<>> /\ NonNegativeWeights /\ qr[1].q <= qr[2].q) =>
        qr[1].ret <= qr[2].ret

\* C12 amended: the same, for lists in which at least one weight is positive.
C12_MonotoneInQWithWeight ==
    (Len(qr) = 2 /\ qx.prices # <<>> /\ NonNegativeWeights /\ qr[1].q <= qr[2].q
        /\ PositivePairs # {}) =>
            qr[1].ret <= qr[2].ret

\* C12 witness: two interior quantiles of one list, the higher q giving the
\* strictly higher price, with a pair of weight zero in the list
C12_Witness ==
    /\ Len(qr) = 2
    /\ NonNegativeWeights
    /\ 0 < qr[1].q /\ qr[1].q < qr[2].q /\ qr[2].q < ShareScale
    /\ qr[1].ret < qr[2].ret
    /\ \E k \in 1..Len(qx.weights) : qx.weights[k] = 0

\* C19: for 0 < q < 1 and a total positive weight > 0 the quantile is the
\* smallest price p of a positive-weight pair such that the positive-weight
\* pairs priced at most p weigh at least q * total_weight together; pairs of
\* weight <= 0 have no part in it; with no positive weight the result is 0.
C19_InteriorQuantile ==
    \A k \in 1..Len(qr) :
        (0 < qr[k].q /\ qr[k].q < ShareScale) =>
            IF TotalPositiveWeight > 0
            THEN qr[k].ret =
                     SetMin({qx.prices[j] : j \in {i \in PositivePairs :
                         WeightUpTo(qx.prices[i]) * ShareScale
                             >= qr[k].q * TotalPositiveWeight}})
            ELSE qr[k].ret = 0

\* C19 witness: the cumulative weight meets q * total_weight exactly at the
\* returned price, which is neither the cheapest nor the dearest price, and
\* a cheaper pair of weight <= 0 is passed over
C19_Witness ==
    \E k \in 1..Len(qr) :
        /\ 0 < qr[k].q /\ qr[k].q < ShareScale
        /\ TotalPositiveWeight > 0
        /\ WeightUpTo(qr[k].ret) * ShareScale = qr[k].q * TotalPositiveWeight
        /\ SetMin(PriceSet) < qr[k].ret /\ qr[k].ret < SetMax(PriceSet)
        /\ \E j \in 1..Len(qx.prices) :
              qx.weights[j] <= 0 /\ qx.prices[j] < qr[k].ret

\* the threshold groups of a method result r, as the claims speak of them
PeriodsOf(r) ==
    IF r.method = "COUNT_WEIGHTED" THEN config.PRICE_SUPPORT_PERIODS
                                   ELSE config.PRICE_SUPPORT_PERIODS_POINTS
LastRangeCount(r) == PeriodsOf(r)[1].LAST_RANGE_COUNT
InLastGroup(r, i) == LastRangeCount(r) > 0 /\ i >= r.ranges_count - LastRangeCount(r)
GroupOf(r, last) == {k \in 1..Len(r.stats) : InLastGroup(r, r.stats[k].idx) = last}
GroupConfig(r, last) == PeriodsOf(r)[IF last THEN 1 ELSE 2]
BudgetOf(r, last) == GroupConfig(r, last).MAX_ALLOWED_VIOLATIONS
IgnoredIn(r, G) == {k \in G : r.stats[k].ignored_by_violation}
ValidIn(r, G) == {k \in G : r.stats[k].valid /\ r.stats[k].percentile_price > 0}
Min2(a, b) == IF a <= b THEN a ELSE b
\* the ignored sub-ranges of G are valid and no dearer than the valid ones left
CheapestIgnored(r, G) ==
    /\ IgnoredIn(r, G) \subseteq ValidIn(r, G)
    /\ \A i \in IgnoredIn(r, G) : \A j \in ValidIn(r, G) \ IgnoredIn(r, G) :
          r.stats[i].percentile_price <= r.stats[j].percentile_price

\* C13: in every result, in each threshold group of each method, the number
\* of sub-ranges marked ignored_by_violation is at most the group's
\* max_allowed_violations (a budget being a count, >= 0); with a budget of
\* 0 none is marked.
C13_BudgetNeverExceeded ==
    \A c \in Calls : \A m \in 1..Len(res[c]) : \A last \in BOOLEAN :
        LET r == res[c][m]
            ignored == IgnoredIn(r, GroupOf(r, last))
        IN BudgetOf(r, last) >= 0 =>
              /\ Cardinality(ignored) <= BudgetOf(r, last)
              /\ BudgetOf(r, last) = 0 => ignored = {}

\* C13 witness: a group with two valid sub-ranges and a budget of 1, one of
\* them ignored, next to a group with a budget of 0 whose valid sub-range is
\* cheaper and is not ignored
C13_Witness ==
    \E c \in Calls : \E m \in 1..Len(res[c]) :
        LET r == res[c][m]
        IN /\ BudgetOf(r, FALSE) = 1 /\ BudgetOf(r, TRUE) = 0
           /\ Cardinality(ValidIn(r, GroupOf(r, FALSE))) = 2
           /\ Cardinality(IgnoredIn(r, GroupOf(r, FALSE))) = 1
           /\ \E k \in ValidIn(r, GroupOf(r, TRUE)) :
                 \A j \in GroupOf(r, FALSE) :
                     r.stats[k].percentile_price < r.stats[j].percentile_price

\* C14 as stated: with max_allowed_violations = k for a group of size g,
\* exactly min(k, g) sub-ranges of the group are marked ignored, and they
\* are valid sub-ranges with the lowest percentile prices of the group.
C14_IgnoredCountByGroupSize ==
    \A c \in Calls : \A m \in 1..Len(res[c]) : \A last \in BOOLEAN :
        LET r == res[c][m]
            G == GroupOf(r, last)
        IN /\ Cardinality(IgnoredIn(r, G)) = Min2(BudgetOf(r, last), Cardinality(G))
           /\ CheapestIgnored(r, G)

\* C14 amended: for k >= 0 exactly min(k, v) sub-ranges of the group are
\* marked ignored, v being the number of valid sub-ranges of the group
\* (percentile price > 0), and they are the valid sub-ranges with the lowest
\* percentile prices.
C14_IgnoredCountByValid ==
    \A c \in Calls : \A m \in 1..Len(res[c]) : \A last \in BOOLEAN :
        LET r == res[c][m]
            G == GroupOf(r, last)
        IN BudgetOf(r, last) >= 0 =>
              /\ Cardinality(IgnoredIn(r, G))
                    = Min2(BudgetOf(r, last), Cardinality(ValidIn(r, G)))
              /\ CheapestIgnored(r, G)

\* C14 witness: a group of three with a budget of 2 and a single valid
\* sub-range, which is the only one ignored
C14_Witness ==
    \E c \in Calls : \E m \in 1..Len(res[c]) : \E last \in BOOLEAN :
        LET r == res[c][m]
            G == GroupOf(r, last)
        IN /\ Cardinality(G) = 3
           /\ BudgetOf(r, last) = 2
           /\ Cardinality(ValidIn(r, G)) = 1
           /\ IgnoredIn(r, G) = ValidIn(r, G)

\* the candidates of a method result, from its RangeStats
CandidateSet(r) ==
    {k \in 1..Len(r.stats) :
        /\ r.stats[k].valid
        /\ r.stats[k].percentile_price > 0
        /\ ~r.stats[k].ignored_by_violation}

\* C15: when a method has a candidate, selected_price is the minimum
\* percentile price over its candidates and selected_range_idx is the
\* highest index among the candidates with that price.
C15_CheapestThenMostRecent ==
    \A c \in Calls : \A m \in 1..Len(res[c]) :
        LET r == res[c][m]
            lowest == SetMin({r.stats[k].percentile_price : k \in CandidateSet(r)})
        IN CandidateSet(r) # {} =>
              /\ r.selected_price = lowest
              /\ r.selected_range_idx =
                     SetMax({r.stats[k].idx : k \in {j \in CandidateSet(r) :
                                r.stats[j].percentile_price = lowest}})

\* C15 witness: three candidates, the cheapest price shared by the first and
\* the last of them, the last selected
C15_Witness ==
    \E c \in Calls : \E m \in 1..Len(res[c]) :
        LET r == res[c][m]
        IN /\ CandidateSet(r) = {1, 2, 3}
           /\ r.stats[1].percentile_price = r.stats[3].percentile_price
           /\ r.stats[1].percentile_price < r.stats[2].percentile_price
           /\ r.selected_range_idx = 2

\* C16: has_candidate is true exactly when some RangeStat is valid, has
\* percentile_price > 0 and is not ignored; then selected_range_idx names
\* such a RangeStat and selected_price is its percentile_price; otherwise
\* selected_price is the infinity sentinel and selected_range_idx is absent.
C16_CandidateIffSelectable ==
    \A c \in Calls : \A m \in 1..Len(res[c]) :
        LET r == res[c][m]
        IN /\ r.has_candidate <=> CandidateSet(r) # {}
           /\ r.has_candidate =>
                 \E k \in CandidateSet(r) :
                     /\ r.selected_range_idx = r.stats[k].idx
                     /\ r.selected_price = r.stats[k].percentile_price
           /\ ~r.has_candidate =>
                 r.selected_price = Inf /\ r.selected_range_idx = NoIdx

\* C16 witness: the selected sub-range is dearer than a valid sub-range that
\* was ignored, and another sub-range is invalid
C16_Witness ==
    \E c \in Calls : \E m \in 1..Len(res[c]) :
        LET r == res[c][m]
        IN /\ r.has_candidate
           /\ \E k \in 1..Len(r.stats) :
                 /\ r.stats[k].valid /\ r.stats[k].ignored_by_violation
                 /\ r.stats[k].percentile_price < r.selected_price
           /\ \E k \in 1..Len(r.stats) : ~r.stats[k].valid

\* C20: sub-range i of N is in the last group exactly when last_range_count
\* > 0 and i >= N - last_range_count, else in the other group; it carries
\* the thresholds of that one group and is subject to the outlier budget of
\* that one group.  So with last_range_count = 0 all sub-ranges use the
\* other group's thresholds and with last_range_count >= N all use the last
\* group's.
C20_GroupMembership ==
    \A c \in Calls : \A m \in 1..Len(res[c]) :
        LET r == res[c][m]
        IN /\ \A k \in 1..Len(r.stats) :
                 LET cfg == GroupConfig(r, InLastGroup(r, r.stats[k].idx))
                 IN /\ r.stats[k].min_share = cfg.MIN_SHARE
                    /\ r.stats[k].min_window_volume = cfg.MIN_WINDOW_VOLUME
           /\ LastRangeCount(r) = 0 =>
                 \A k \in 1..Len(r.stats) :
                     r.stats[k].min_share = PeriodsOf(r)[2].MIN_SHARE
           /\ LastRangeCount(r) >= r.ranges_count =>
                 \A k \in 1..Len(r.stats) :
                     r.stats[k].min_share = PeriodsOf(r)[1].MIN_SHARE
           /\ \A last \in BOOLEAN :
                 LET G == GroupOf(r, last)
                 IN Cardinality(IgnoredIn(r, G))
                        = Min2(Max2(0, BudgetOf(r, last)), Cardinality(ValidIn(r, G)))

\* C20 witness: three sub-ranges under last_range_count = 1 with different
\* thresholds per group: the first two carry the other group's, the third
\* the last group's
C20_Witness ==
    \E c \in Calls : \E m \in 1..Len(res[c]) :
        LET r == res[c][m]
        IN /\ r.ranges_count = 3
           /\ LastRangeCount(r) = 1
           /\ GroupConfig(r, TRUE).MIN_WINDOW_VOLUME # GroupConfig(r, FALSE).MIN_WINDOW_VOLUME
           /\ r.stats[1].min_window_volume = GroupConfig(r, FALSE).MIN_WINDOW_VOLUME
           /\ r.stats[2].min_window_volume = GroupConfig(r, FALSE).MIN_WINDOW_VOLUME
           /\ r.stats[3].min_window_volume = GroupConfig(r, TRUE).MIN_WINDOW_VOLUME

\* call c runs the scenario: ten observations evenly spread over at most 24
\* hours, each of price 1.0 and count 5, window_hours = 24, min_range_hours
\* = 24, density 0 in force, volume-weighted min_share = 0.2
IsScenario(c) ==
    /\ pc[c] # "idle"
    /\ GraphHours = 24 /\ MinRangeHours = 24
    /\ DensityInForce(c) = 0
    /\ Len(points[c]) = 10
    /\ \A k \in 1..10 : points[c][k].price = 1000 /\ points[c][k].count = 5
    /\ \A k \in 1..9 : points[c][k + 1].ts - points[c][k].ts
                            = points[c][2].ts - points[c][1].ts
    /\ points[c][1].ts < points[c][2].ts
    /\ points[c][10].ts - points[c][1].ts <= 24 * SecondsPerHour
    /\ Len(config.PRICE_SUPPORT_PERIODS) >= 2
    /\ config.PRICE_SUPPORT_PERIODS[1].MIN_SHARE = 2

\* C17 as stated: in the scenario the partition is N = 1, the
\* volume-weighted sub-range (min_share 0.2, q 0.8) has percentile price
\* 1.0 and the volume-weighted method's selected price is 1.0.
C17_ScenarioSelectedPrice ==
    \A c \in Calls :
        (IsScenario(c) /\ Len(res[c]) >= 1) =>
            LET r == res[c][1]
            IN /\ r.ranges_count = 1
               /\ r.stats[1].percentile_q = 8
               /\ r.stats[1].percentile_price = 1000
               /\ r.selected_price = 1000

\* C17 amended: in the scenario the partition is N = 1 for both methods;
\* the volume-weighted sub-range holds the ten observations (50 sales), is
\* valid and has percentile price 1.0 at q = 0.8; the volume-weighted
\* method selects 1.0 when its last group has max_allowed_violations = 0,
\* and with the shipped budget of 1 the sub-range is ignored and the method
\* has no candidate; under the shipped point-weighted groups that method
\* selects 1.0, and the call returns the price 1.00.
C17_ScenarioReturnedPrice ==
    \A c \in Calls :
        IsScenario(c) =>
            /\ \A m \in 1..Len(res[c]) : res[c][m].ranges_count = 1
            /\ Len(res[c]) >= 1 =>
                  LET r == res[c][1]
                      st == r.stats[1]
                  IN /\ st.points_count = 10 /\ st.volume_sales = 50
                     /\ st.min_share = 2 /\ st.percentile_q = 8
                     /\ st.valid /\ st.percentile_price = 1000
                     /\ IF BudgetOf(r, TRUE) = 0
                        THEN r.has_candidate /\ r.selected_price = 1000
                                /\ r.selected_range_idx = 0
                        ELSE st.ignored_by_violation /\ ~r.has_candidate
                                /\ r.selected_price = Inf
            /\ (Len(res[c]) >= 2
                    /\ config.PRICE_SUPPORT_PERIODS_POINTS = ShippedPeriodsPoints) =>
                  res[c][2].has_candidate /\ res[c][2].selected_price = 1000
            /\ pc[c] = "done" =>
                  /\ out[c].status = "returned"
                  /\ Dual(c).min_support_price = 1000
                  /\ ~Dual(c).used_fallback_current

\* C17 witness: the scenario under the shipped groups with the density
\* overridden to 0: the volume-weighted sub-range ignored, the price 1.00
\* returned from the point-weighted method
C17_Witness ==
    \E c \in Calls :
        /\ IsScenario(c)
        /\ HasReturned(c)
        /\ config.PRICE_SUPPORT_PERIODS = ShippedPeriods
        /\ config.MIN_POINTS_SHARE_PER_HOUR = 50
        /\ density_share_override[c] = 0
        /\ Dual(c).res_count_weighted.stats[1].ignored_by_violation
        /\ Dual(c).chosen_method = "POINTS_ONLY"
        /\ Dual(c).min_support_price = 1000

\* what compute_support_dual(pts, override) does when nothing else runs: the
\* steps of one call composed in program order
RECURSIVE SearchAlone(_, _, _, _, _)
SearchAlone(pts, W, L, D, n) ==
    IF n < 1
    THEN [N |-> 1, range_hours |-> Fraction(W, 1),
          required_points |-> RequiredPoints(W, 1, D),
          notes |-> <<Note("fallback", 1, <<>>)>>]
    ELSE IF BelowMinRange(W, n, L)
    THEN LET rest == SearchAlone(pts, W, L, D, n - 1)
         IN [rest EXCEPT !.notes = <<Note("skip", n, <<>>)>> \o rest.notes]
    ELSE IF \E k \in 1..n : PickCounts(pts, W, n)[k] < RequiredPoints(W, n, D)
    THEN LET rest == SearchAlone(pts, W, L, D, n - 1)
         IN [rest EXCEPT !.notes =
                FailNotes(n, RequiredPoints(W, n, D), PickCounts(pts, W, n)) \o rest.notes]
    ELSE [N |-> n, range_hours |-> Fraction(W, n),
          required_points |-> RequiredPoints(W, n, D),
          notes |-> <<Note("ok", n, <<RequiredPoints(W, n, D)>>),
                      Note("counts", n, PickCounts(pts, W, n))>>]

PartitionAlone(pts, W, L, D) ==
    IF W <= 0
    THEN [N |-> 1, range_hours |-> Fraction(Max2(1, L), 1), required_points |-> 1,
          notes |-> <<Note("graph_hours<=0", 1, <<>>)>>]
    ELSE LET found == SearchAlone(pts, W, L, D, PickNMax(W, L))
         IN [found EXCEPT !.notes = <<Note("search", PickNMax(W, L), <<>>)>> \o found.notes]

\* the error message of one method's run, "" when it returns
MethodErrorAlone(input, periods) ==
    IF input = <<>> THEN "Empty points"
    ELSE IF _filter_last_hours(input, GraphHours) = <<>>
         THEN "No points in selected Graph_Analys window"
    ELSE IF Len(periods) < 2 THEN "periods must be a list of at least 2 dicts"
    ELSE ""

\* the SupportResult of one method's run that returns
MethodAlone(input, override, periods, method, use_counts_for_share) ==
    LET pts == _filter_last_hours(input, GraphHours)
        D == IF override = NoOverride THEN config.MIN_POINTS_SHARE_PER_HOUR ELSE override
        part == PartitionAlone(pts, GraphHours, MinRangeHours, D)
        last_count == LastCount(periods[1], part.N)
        built == [k \in 1..part.N |->
                    BuildRangeStat(pts, GraphHours, part.N, k - 1, last_count,
                                   periods, use_counts_for_share)]
        f == [NewFrame(method, periods, use_counts_for_share) EXCEPT
                 !.pts = pts, !.p_now = pts[Len(pts)].price,
                 !.used_density_share = D, !.N = part.N,
                 !.range_hours = part.range_hours,
                 !.required_points = part.required_points,
                 !.last_count = last_count, !.i = part.N,
                 !.notes = (IF Len(pts) < Len(input)
                            THEN <<Note("filtered", Len(pts), <<Len(input)>>)>>
                            ELSE <<>>)
                           \o part.notes
                           \o <<Note(IF use_counts_for_share THEN "uses_sales"
                                                             ELSE "uses_points",
                                     part.N, <<>>)>>,
                 !.stats = ApplyBothViolations(built, part.N, last_count,
                                               periods[1], periods[2])]
    IN MakeSupportResult(f, GraphHours, MinRangeHours)

DualAlone(input, override) ==
    LET e1 == MethodErrorAlone(input, config.PRICE_SUPPORT_PERIODS)
        e2 == MethodErrorAlone(input, config.PRICE_SUPPORT_PERIODS_POINTS)
    IN IF e1 # "" THEN Raised(e1)
       ELSE IF e2 # "" THEN Raised(e2)
       ELSE Returned(Combine(
                MethodAlone(input, override, config.PRICE_SUPPORT_PERIODS,
                            "COUNT_WEIGHTED", TRUE),
                MethodAlone(input, override, config.PRICE_SUPPORT_PERIODS_POINTS,
                            "POINTS_ONLY", FALSE)))

\* the variables one call works on
Locals(c) == <<pc[c], frame[c], res[c], out[c]>>

\* a step changes the locals of at most one call, and never the
\* configuration or an argument of a call
StepIsLocal ==
    /\ config' = config
    /\ points' = points
    /\ density_share_override' = density_share_override
    /\ \A c \in Calls : \A d \in Calls \ {c} :
          Locals(c)' # Locals(c) => Locals(d)' = Locals(d)

\* C18: two calls run concurrently on their own input sequences,
\* interleaved at any step, each end with the result of the same call run
\* alone; no step of one call writes the stats, notes, candidates or
\* results of the other, the configuration or an input sequence.
C18_ConcurrentCallsIsolated ==
    /\ [](\A c \in Calls : pc[c] = "done" => out[c] = DualAlone(points[c],
                                                     density_share_override[c]))
    /\ [][StepIsLocal]_vars

\* C18 witness: call 1 has returned a price from a candidate while call 2,
\* on another history and with another density in force, is in its second
\* method's stats loop with a first result that differs from call 1's
C18_Witness ==
    /\ HasReturned(1)
    /\ ~Dual(1).used_fallback_current
    /\ points[1] # points[2]
    /\ pc[2] = "violations"
    /\ Len(res[2]) = 1
    /\ res[2][1].ranges_count # Dual(1).res_count_weighted.ranges_count
    /\ frame[2].stats # <<>>

\* the observations of call c inside its window, and the members of a
\* sub-range, from the call's input and the RangeStat's recorded bounds
InWindow(c) == SelectSeq(points[c], LAMBDA p : p.ts >= WindowStart(c))
MembersOf(c, st) == SelectSeq(InWindow(c), LAMBDA p : st.start_ts <= p.ts /\ p.ts < st.end_ts)
CountsOf(ms) == [k \in 1..Len(ms) |-> ms[k].count]
OnesOf(ms) == [k \in 1..Len(ms) |-> 1]
PricesOf(ms) == {ms[k].price : k \in 1..Len(ms)}
\* the weight of the members with positive weight priced at most p
WeightAtMost(ms, ws, p) ==
    SumSeq([k \in 1..Len(ms) |-> IF ws[k] > 0 /\ ms[k].price <= p THEN ws[k] ELSE 0])
\* the q-quantile (q in tenths) of the member prices under the weights ws
QuantileOf(ms, ws, q) ==
    IF q <= 0 THEN SetMin(PricesOf(ms))
    ELSE IF q >= ShareScale THEN SetMax(PricesOf(ms))
    ELSE SetMin({ms[k].price : k \in {j \in 1..Len(ms) :
                    /\ ws[j] > 0
                    /\ WeightAtMost(ms, ws, ms[j].price) * ShareScale
                           >= q * WeightAtMost(ms, ws, Inf)}})

\* C21: a sub-range is invalid whenever its gating metric is below its
\* group's min_window_volume, the metric being the sum of the member counts
\* in COUNT_WEIGHTED and the number of members in POINTS_ONLY; the
\* percentile price of a valid sub-range is the quantile under the same
\* choice of weights (the counts, or 1 per observation).
C21_MetricPerMethod ==
    \A c \in Calls : \A m \in 1..Len(res[c]) :
        LET r == res[c][m]
        IN \A k \in 1..Len(r.stats) :
              LET st == r.stats[k]
                  ms == MembersOf(c, st)
                  by_volume == r.method = "COUNT_WEIGHTED"
                  metric == IF by_volume THEN SumSeq(CountsOf(ms)) ELSE Len(ms)
                  ws == IF by_volume THEN CountsOf(ms) ELSE OnesOf(ms)
              IN /\ st.volume_used = metric
                 /\ metric < st.min_window_volume => ~st.valid
                 /\ st.valid => st.percentile_price = QuantileOf(ms, ws, st.percentile_q)

\* C21 witness: the two methods, on the same sub-range at the same q, both
\* valid, with different percentile prices
C21_Witness ==
    \E c \in Calls :
        /\ HasReturned(c)
        /\ \E k \in 1..Len(Dual(c).res_count_weighted.stats) :
              LET a == Dual(c).res_count_weighted.stats[k]
                  b == Dual(c).res_points_only.stats[k]
              IN /\ Len(Dual(c).res_points_only.stats) >= k
                 /\ a.start_ts = b.start_ts /\ a.end_ts = b.end_ts
                 /\ a.percentile_q = b.percentile_q
                 /\ a.valid /\ b.valid
                 /\ a.percentile_price # b.percentile_price

\* C22 as stated: a sub-range that passes the volume gate has at least one
\* member observation, so "no prices" is never the recorded reason, for
\* every min_window_volume >= 0.
C22_NoPricesNeverRecorded ==
    \A c \in Calls : \A m \in 1..Len(res[c]) :
        \A k \in 1..Len(res[c][m].stats) :
            LET st == res[c][m].stats[k]
            IN st.min_window_volume >= 0 =>
                  /\ st.volume_used >= st.min_window_volume => st.points_count >= 1
                  /\ st.invalid_reason # "no prices"

\* C22 amended: the same for every min_window_volume >= 1; with
\* min_window_volume = 0 an empty sub-range passes the gate and "no prices"
\* is its recorded reason.
C22_NoPricesOnlyWithoutGate ==
    \A c \in Calls : \A m \in 1..Len(res[c]) :
        \A k \in 1..Len(res[c][m].stats) :
            LET st == res[c][m].stats[k]
            IN /\ st.min_window_volume >= 1 =>
                     /\ st.volume_used >= st.min_window_volume => st.points_count >= 1
                     /\ st.invalid_reason # "no prices"
               /\ (st.min_window_volume = 0 /\ st.points_count = 0) =>
                     (~st.valid /\ st.invalid_reason = "no prices")

\* C22 witness: under a min_window_volume >= 1, a result with an empty
\* sub-range stopped at the gate and a sub-range that passed it
C22_Witness ==
    \E c \in Calls : \E m \in 1..Len(res[c]) :
        LET st == res[c][m].stats
        IN \E j \in 1..Len(st) : \E k \in 1..Len(st) :
              /\ st[j].min_window_volume >= 1 /\ st[k].min_window_volume >= 1
              /\ st[j].points_count = 0 /\ ~st[j].valid
              /\ st[j].invalid_reason # "no prices"
              /\ st[k].volume_used >= st[k].min_window_volume /\ st[k].valid

\* the indices of the input kept by the window, and the p-th of them
KeptIdx(c) == {k \in 1..Len(points[c]) : points[c][k].ts >= WindowStart(c)}
NthKept(c, p) == CHOOSE k \in KeptIdx(c) : Cardinality({j \in KeptIdx(c) : j < k}) = p - 1
InMethod(c) == pc[c] \in {"pick", "try", "periods", "stats", "violations", "select"}

\* C23: the window filter returns, in the original order, exactly the
\* observations with timestamp >= last_timestamp - window_hours * 3600; for
\* a non-empty input and window_hours >= 0 the output is non-empty and ends
\* with the final observation, so p_now is the last input price.
C23_WindowFilter ==
    \A c \in Calls :
        /\ InMethod(c) =>
              /\ Len(frame[c].pts) = Cardinality(KeptIdx(c))
              /\ \A p \in 1..Len(frame[c].pts) :
                    frame[c].pts[p] = points[c][NthKept(c, p)]
        /\ (points[c] # <<>> /\ GraphHours >= 0) =>
              /\ out[c].error # "No points in selected Graph_Analys window"
              /\ InMethod(c) =>
                    /\ frame[c].pts # <<>>
                    /\ frame[c].pts[Len(frame[c].pts)] = points[c][Len(points[c])]
                    /\ frame[c].p_now = LastInputPrice(c)
              /\ \A m \in 1..Len(res[c]) : res[c][m].p_now = LastInputPrice(c)

\* C23 witness: a window that drops the first of three observations and
\* keeps the one on its lower edge
C23_Witness ==
    \E c \in Calls :
        /\ InMethod(c)
        /\ Len(points[c]) = 3
        /\ Len(frame[c].pts) = 2
        /\ frame[c].pts[1].ts = WindowStart(c)
        /\ frame[c].pts[1].price # frame[c].p_now

\* C24: with window_hours > 0 the N sub-ranges of a result tile the window:
\* the first starts at t_end - window_hours * 3600, each ends where the next
\* starts, the last ends at t_end + 1; every filtered observation is a
\* member of exactly one sub-range; the points_count values sum to the
\* number of filtered observations and the volume_sales values to the sum
\* of their counts.
C24_SubRangesTileWindow ==
    \A c \in Calls : \A m \in 1..Len(res[c]) :
        GraphHours > 0 =>
            LET st == res[c][m].stats
                N == Len(st)
                w == InWindow(c)
            IN /\ N = res[c][m].ranges_count
               /\ st[1].start_ts = WindowEnd(c) - GraphHours * SecondsPerHour
               /\ \A k \in 1..(N - 1) : st[k].end_ts = st[k + 1].start_ts
               /\ st[N].end_ts = WindowEnd(c) + 1
               /\ \A j \in 1..Len(w) :
                     Cardinality({k \in 1..N :
                         st[k].start_ts <= w[j].ts /\ w[j].ts < st[k].end_ts}) = 1
               /\ \A k \in 1..N :
                     /\ st[k].points_count = Len(MembersOf(c, st[k]))
                     /\ st[k].volume_sales = SumSeq(CountsOf(MembersOf(c, st[k])))
               /\ SumSeq([k \in 1..N |-> st[k].points_count]) = Len(w)
               /\ SumSeq([k \in 1..N |-> st[k].volume_sales]) = SumSeq(CountsOf(w))

\* C24 witness: three sub-ranges, the first holding the observation on the
\* window's lower edge, the second empty, the third holding two
C24_Witness ==
    \E c \in Calls :
        /\ HasReturned(c)
        /\ GraphHours > 0
        /\ LET st == Dual(c).res_count_weighted.stats
           IN /\ Len(st) = 3
              /\ points[c][1].ts = st[1].start_ts
              /\ st[1].points_count = 1
              /\ st[2].points_count = 0
              /\ st[3].points_count = 2

\* C25: the stats builder counts in each sub-range what the partition
\* search counted, so when N was accepted by the density check every
\* RangeStat of both methods has points_count >= required_points_per_range;
\* and both methods report the same N, range_hours,
\* required_points_per_range and p_now.
C25_BuilderMatchesSearch ==
    \A c \in Calls :
        /\ \A m \in 1..Len(res[c]) :
              LET r == res[c][m]
              IN /\ \A j \in 1..Len(r.notes) :
                       (r.notes[j].tag = "counts" /\ r.notes[j].n = r.ranges_count) =>
                           \A k \in 1..Len(r.stats) :
                               r.stats[k].points_count = r.notes[j].info[k]
                 /\ HasNote(r, "ok") =>
                       \A k \in 1..Len(r.stats) :
                           r.stats[k].points_count >= r.required_points_per_range
        /\ Len(res[c]) = 2 =>
              /\ res[c][1].ranges_count = res[c][2].ranges_count
              /\ res[c][1].range_hours = res[c][2].range_hours
              /\ res[c][1].required_points_per_range
                    = res[c][2].required_points_per_range
              /\ res[c][1].p_now = res[c][2].p_now

\* C25 witness: both methods returned two sub-ranges accepted under a
\* requirement of one observation each, after N = 3 failed
C25_Witness ==
    \E c \in Calls :
        /\ HasReturned(c)
        /\ HasNote(Dual(c).res_points_only, "ok")
        /\ HasNote(Dual(c).res_points_only, "fail")
        /\ Dual(c).res_points_only.ranges_count = 2
        /\ Dual(c).res_count_weighted.ranges_count = 2
        /\ Dual(c).res_points_only.required_points_per_range >= 1

\* C26: every RangeStat of a result is consistent: valid implies
\* percentile_price > 0, volume_used >= min_window_volume, points_count >= 1
\* and, in the volume-weighted method, volume_sales > 0; not valid implies
\* percentile_price = 0, a non-empty invalid_reason and no ignored flag;
\* ignored_by_violation implies valid.
C26_RangeStatConsistent ==
    \A c \in Calls : \A m \in 1..Len(res[c]) :
        \A k \in 1..Len(res[c][m].stats) :
            LET st == res[c][m].stats[k]
            IN /\ st.valid =>
                     /\ st.percentile_price > 0
                     /\ st.volume_used >= st.min_window_volume
                     /\ st.points_count >= 1
                     /\ res[c][m].method = "COUNT_WEIGHTED" => st.volume_sales > 0
                     /\ st.invalid_reason = ""
               /\ ~st.valid =>
                     /\ st.percentile_price = 0
                     /\ st.invalid_reason # ""
                     /\ ~st.ignored_by_violation
               /\ st.ignored_by_violation => st.valid

\* C26 witness: a result holding a valid ignored sub-range, a valid
\* sub-range left as candidate and a sub-range invalid for lack of sales
C26_Witness ==
    \E c \in Calls : \E m \in 1..Len(res[c]) :
        LET st == res[c][m].stats
        IN /\ \E k \in 1..Len(st) : st[k].valid /\ st[k].ignored_by_violation
           /\ \E k \in 1..Len(st) : st[k].valid /\ ~st[k].ignored_by_violation
           /\ \E k \in 1..Len(st) : st[k].invalid_reason = "sum(count)<=0"

\* C27: in each threshold group with budget k and v valid sub-ranges exactly
\* min(max(0, k), v) sub-ranges are marked ignored; every ignored one is
\* valid and priced at most like every valid one left; among valid
\* sub-ranges of equal price at the budget boundary the lower indices are
\* the ignored ones.  Each group is marked by its own budget only.
C27_OldestCheapestIgnored ==
    \A c \in Calls : \A m \in 1..Len(res[c]) : \A last \in BOOLEAN :
        LET r == res[c][m]
            G == GroupOf(r, last)
        IN /\ Cardinality(IgnoredIn(r, G))
                 = Min2(Max2(0, BudgetOf(r, last)), Cardinality(ValidIn(r, G)))
           /\ CheapestIgnored(r, G)
           /\ \A i \in IgnoredIn(r, G) : \A j \in ValidIn(r, G) \ IgnoredIn(r, G) :
                 r.stats[i].percentile_price = r.stats[j].percentile_price =>
                     r.stats[i].idx < r.stats[j].idx

\* C27 witness: a last group of two valid sub-ranges of equal price with a
\* budget of 1, the older ignored; the other group, with a negative budget,
\* keeps its valid sub-range
C27_Witness ==
    \E c \in Calls : \E m \in 1..Len(res[c]) :
        LET r == res[c][m]
        IN /\ BudgetOf(r, TRUE) = 1
           /\ BudgetOf(r, FALSE) < 0
           /\ GroupOf(r, TRUE) = {2, 3}
           /\ r.stats[2].valid /\ r.stats[3].valid
           /\ r.stats[2].percentile_price = r.stats[3].percentile_price
           /\ r.stats[2].ignored_by_violation /\ ~r.stats[3].ignored_by_violation
           /\ r.stats[1].valid /\ ~r.stats[1].ignored_by_violation

\* C28: a threshold group whose max_allowed_violations is at least its
\* number of valid sub-ranges contributes no candidate; so with N = 1,
\* LAST_RANGE_COUNT >= 1 and a last-group budget >= 1 the method has no
\* candidate, even when its only sub-range is valid.
C28_BudgetSwallowsGroup ==
    \A c \in Calls : \A m \in 1..Len(res[c]) :
        LET r == res[c][m]
        IN /\ \A last \in BOOLEAN :
                 BudgetOf(r, last) >= Cardinality(ValidIn(r, GroupOf(r, last))) =>
                     CandidateSet(r) \cap GroupOf(r, last) = {}
           /\ (r.ranges_count = 1 /\ LastRangeCount(r) >= 1 /\ BudgetOf(r, TRUE) >= 1) =>
                 (~r.has_candidate /\ r.selected_price = Inf)

\* C28 witness: the shipped volume-weighted groups on a single sub-range
\* that is valid, and no candidate
C28_Witness ==
    \E c \in Calls : \E m \in 1..Len(res[c]) :
        LET r == res[c][m]
        IN /\ r.method = "COUNT_WEIGHTED"
           /\ PeriodsOf(r) = ShippedPeriods
           /\ r.ranges_count = 1
           /\ r.stats[1].valid
           /\ ~r.has_candidate

\* C29: when both methods have a candidate at the same selected price the
\* chosen method is COUNT_WEIGHTED; POINTS_ONLY is chosen only when its
\* selected price is strictly lower or COUNT_WEIGHTED has no candidate.
C29_TieGoesToCountWeighted ==
    \A c \in Calls :
        HasReturned(c) =>
            LET d == Dual(c)
                a == d.res_count_weighted
                b == d.res_points_only
            IN /\ (a.has_candidate /\ b.has_candidate
                      /\ a.selected_price = b.selected_price) =>
                     d.chosen_method = "COUNT_WEIGHTED"
               /\ d.chosen_method = "POINTS_ONLY" =>
                     /\ b.has_candidate
                     /\ ~a.has_candidate \/ b.selected_price < a.selected_price

\* C29 witness: both methods selected the same price from different
\* sub-ranges and COUNT_WEIGHTED was chosen
C29_Witness ==
    \E c \in Calls :
        /\ HasReturned(c)
        /\ Dual(c).res_count_weighted.has_candidate
        /\ Dual(c).res_points_only.has_candidate
        /\ Dual(c).res_count_weighted.selected_price
               = Dual(c).res_points_only.selected_price
        /\ Dual(c).res_count_weighted.selected_range_idx
               # Dual(c).res_points_only.selected_range_idx
        /\ Dual(c).chosen_method = "COUNT_WEIGHTED"

\* C30: the percentile price of a valid sub-range is the price of one of
\* its members; in the volume-weighted method with 0 < q < 1 it is the
\* price of a member of count > 0, and at q >= 1 it is the highest member
\* price, whatever that member's count.
C30_PercentileIsMemberPrice ==
    \A c \in Calls : \A m \in 1..Len(res[c]) :
        \A k \in 1..Len(res[c][m].stats) :
            LET st == res[c][m].stats[k]
                ms == MembersOf(c, st)
            IN st.valid =>
                  /\ st.percentile_price \in PricesOf(ms)
                  /\ (res[c][m].method = "COUNT_WEIGHTED"
                         /\ 0 < st.percentile_q /\ st.percentile_q < ShareScale) =>
                        \E j \in 1..Len(ms) :
                            ms[j].price = st.percentile_price /\ ms[j].count > 0
                  /\ st.percentile_q >= ShareScale =>
                        st.percentile_price = SetMax(PricesOf(ms))

\* C30 witness: a volume-weighted sub-range at q = 1 whose percentile
\* price is that of a member of count 0, dearer than the member with sales
C30_Witness ==
    \E c \in Calls : \E m \in 1..Len(res[c]) : \E k \in 1..Len(res[c][m].stats) :
        LET st == res[c][m].stats[k]
            ms == MembersOf(c, st)
        IN /\ res[c][m].method = "COUNT_WEIGHTED"
           /\ st.valid
           /\ st.percentile_q = ShareScale
           /\ \A j \in 1..Len(ms) : ms[j].price = st.percentile_price => ms[j].count = 0
           /\ \E j \in 1..Len(ms) : ms[j].count > 0

====
